---- MODULE Spec2Model ----
(***************************************************************************)
(* AI provider orchestration layer of the Quran recitation coach backend:  *)
(*   backend/app/services/ai_service.py      AIService, AIAnalysisResult   *)
(*   backend/app/services/gemini_service.py  GeminiService                 *)
(*   backend/app/services/whisper_service.py WhisperService                *)
(*                                                                         *)
(* The specifications of the module:                                       *)
(*   SpecRetry  one caller running AIService.retry_on_failure over an      *)
(*              operation whose per-invocation outcomes are scripted;      *)
(*   Spec       one caller running the six provider operations against a   *)
(*              backend and a host file system;                            *)
(*   SpecTask   one caller that, in a run, uses either of the two above;   *)
(*   SpecPure   the constructors and the pure helpers applied to inputs    *)
(*              drawn from bounded sets;                                   *)
(*   SpecPair   two tasks of one event loop, each in retry_on_failure;     *)
(*   SpecTrans  two tasks of one event loop, each in transcribe_audio;     *)
(*   SpecWrapped one caller running the provider operations through        *)
(*              retry_on_failure.                                          *)
(* Numbers with a fractional part are kept in hundredths (0.8 is 80); a    *)
(* mean is kept as the exact fraction num / (100 * den).                   *)
(***************************************************************************)
EXTENDS Integers, Sequences, FiniteSets, TLC

VARIABLES
    \* ---- retry_on_failure (ai_service.py:48-65) ----
    rpc,          \* position of the call: idle, inflight, sleeping, done
    script,       \* outcomes of the operation's successive invocations
    attempt,      \* loop variable of `for attempt in range(...)`
    last_error,   \* local last_error
    calls,        \* invocations of func made by this call
    sleeps,       \* durations handed to asyncio.sleep by this call, in order
    now,          \* time units since the call started
    busy,         \* time units the invocation in flight has taken so far
    wakeAt,       \* time at which the pending asyncio.sleep ends
    startedAt,    \* time at which each invocation began
    failedAt,     \* time at which each failed invocation ended
    routcome,     \* what the call gave its caller: return value or raised error
    rcallNo,      \* calls of retry_on_failure started so far
    rcancelled,   \* the task running the call has been cancelled
    \* ---- provider operations (gemini_service.py, whisper_service.py) ----
    pc,           \* position of the operation: idle, awaiting, done
    op,           \* the operation running
    records,      \* the caller's records or text (text operations)
    audio,        \* the caller's audio stream (transcription operations)
    tempFiles,    \* temporary files present on the host
    temp_file,    \* temp_file.name of the running call, 0 before creation
    created,      \* names of the temporary files the running call has created
    nextFile,     \* source of fresh temporary file names
    roundTrips,   \* backend requests issued by the running call
    backendFails, \* leading round trips of this call the backend fails
    result,       \* the AIAnalysisResult returned by the call
    response,     \* what the backend answered to the last round trip
    pcallNo,      \* provider operations started so far
    hangs,        \* the backend never answers the round trip in flight
    waited,       \* time units the round trip in flight has been awaited
    cancelled,    \* the task running the operation has been cancelled
    config,       \* the attributes the two constructors set on the instances
    request,      \* the arguments of the round trip the running call issued
    given,        \* the audio stream as the caller passed it
    \* ---- constructors and pure helpers ----
    fn,           \* the function applied last
    arg,          \* its argument
    out,          \* what it returned or raised
    \* ---- two tasks calling retry_on_failure on one instance ----
    cpc,          \* per task: idle, inflight, sleeping, done
    cscript,      \* per task: whether each invocation of its operation succeeds
    cattempt,     \* per task: local attempt
    clast,        \* per task: local last_error
    ccalls,       \* per task: invocations of func made by the call
    csleeps,      \* per task: durations handed to asyncio.sleep, in order
    cleft,        \* per task: time left of the pending asyncio.sleep
    cslept,       \* per task: time the pending asyncio.sleep has lasted
    cout,         \* per task: what the call gave its caller
    cduring,      \* per task: the call began while the other task was suspended
    cno,          \* calls of retry_on_failure started so far by both tasks
    \* ---- two tasks calling transcribe_audio on one instance ----
    wpc,          \* per task: idle, awaiting, done
    wfile,        \* per task: temp_file.name of its call, 0 before creation
    waudio,       \* per task: the payload it was given
    wsent,        \* per task: what the file it opened for the request held
    whost,        \* temporary files present on the host
    wno           \* transcription calls started so far by both tasks

rvars == <<rpc, script, attempt, last_error, calls, sleeps, now, busy, wakeAt,
           startedAt, failedAt, routcome, rcallNo, rcancelled>>

pvars == <<pc, op, records, audio, tempFiles, temp_file, created, nextFile, roundTrips,
           backendFails, result, response, pcallNo, hangs, waited, cancelled,
           config, request, given>>

fvars == <<fn, arg, out>>

cvars == <<cpc, cscript, cattempt, clast, ccalls, csleeps, cleft, cslept, cout, cduring, cno>>

wvars == <<wpc, wfile, waudio, wsent, whost, wno>>

vars == <<rvars, pvars, fvars, cvars, wvars>>

None == "None"

-----------------------------------------------------------------------------
(* Bounds *)

\* outcomes scripted for the operation: one more than the attempt budget
MaxScript == 4
\* longest time one invocation of the operation stays in flight
MaxOpTime == 1
\* calls of retry_on_failure made one after the other
MaxRetryCalls == 2
\* provider operations run one after the other
MaxCalls == 2
\* calls of retry_on_failure the two concurrent tasks start between them
MaxPairCalls == 3
\* segments of a transcript handed to _calculate_confidence
MaxSegs == 2
\* entries of the required_fields list handed to validate_input
MaxFields == 3

-----------------------------------------------------------------------------
(* AIService.retry_on_failure                                              *)

RetValues == {"v1", "v2"}
OpErrors == {"e1", "e2", "e3", "e4"}

\* what the errors of an operation stand for: e1 the AIServiceError of
\* validate_audio_file / validate_input, e2 that of validate_api_key, e3 and
\* e4 errors of the backend
ValidationErrors == {"e1"}
ConfigurationErrors == {"e2"}

\* self.rate_limit_retry = 3
rate_limit_retry == 3

\* self.timeout = 30
timeout == 30

\* the longest a round trip without an answer is followed
MaxWait == timeout + 1

Outcomes == [ok : {TRUE}, val : RetValues] \cup [ok : {FALSE}, err : OpErrors]

Scripts == [1..MaxScript -> Outcomes]

RECURSIVE Pow2(_)
\* 2 ** attempt
Pow2(n) == IF n <= 0 THEN 1 ELSE 2 * Pow2(n - 1)

\* range(self.rate_limit_retry)
AttemptRange == 0 .. (rate_limit_retry - 1)

IsLastAttempt_early(a) == a = rate_limit_retry - 2

\* if attempt == self.rate_limit_retry - 1: break
IsLastAttempt(a) == a = rate_limit_retry - 1

RecordError_first(prev, e) == IF prev = None THEN e ELSE prev

\* last_error = e
RecordError(prev, e) == e

Backoff_swapped(a) == a * a

\* the argument of asyncio.sleep(2 ** attempt)
Backoff(a) == Pow2(a)

\* AIServiceError(f"All retry attempts failed. Last error: {str(last_error)}")
\* a message is the sequence of the fragments it is formatted from
ExhaustedError(e) ==
    [type |-> "AIServiceError", msg |-> <<"All retry attempts failed. Last error: ", e>>]

NoOutcome == [kind |-> "none"]

\* the operation a caller holds while it is not inside retry_on_failure
IdleScript == [i \in 1..MaxScript |-> [ok |-> TRUE, val |-> "v1"]]

RetryIdle ==
    /\ rpc = "idle"
    /\ attempt = 0
    /\ last_error = None
    /\ calls = 0
    /\ sleeps = <<>>
    /\ now = 0
    /\ busy = 0
    /\ wakeAt = 0
    /\ startedAt = <<>>
    /\ failedAt = <<>>
    /\ routcome = NoOutcome
    /\ rcallNo = 0
    /\ rcancelled = FALSE

\* retry_on_failure is entered with some operation: last_error = None, the
\* loop starts at attempt 0 and func is awaited for the first time
RetryStart ==
    /\ rpc = "idle"
    /\ rcallNo < MaxRetryCalls
    /\ script' \in Scripts
    /\ rcancelled' = FALSE
    /\ rcallNo' = rcallNo + 1
    /\ last_error' = None
    /\ attempt' = 0
    /\ calls' = 1
    /\ sleeps' = <<>>
    /\ now' = 0
    /\ busy' = 0
    /\ wakeAt' = 0
    /\ startedAt' = <<0>>
    /\ failedAt' = <<>>
    /\ routcome' = NoOutcome
    /\ rpc' = "inflight"
    /\ UNCHANGED <<pvars, fvars, cvars, wvars>>

\* time passes while func is in flight or while asyncio.sleep is pending
RetryTick ==
    /\ \/ rpc = "inflight" /\ busy < MaxOpTime
       \/ rpc = "sleeping" /\ now < wakeAt
    /\ now' = now + 1
    /\ busy' = IF rpc = "inflight" THEN busy + 1 ELSE busy
    /\ UNCHANGED <<rpc, script, attempt, last_error, calls, sleeps, wakeAt,
                   startedAt, failedAt, routcome, rcallNo, rcancelled>>
    /\ UNCHANGED <<pvars, fvars, cvars, wvars>>

\* `return await func(*args, **kwargs)`: the awaited invocation returns
RetrySucceed ==
    /\ rpc = "inflight"
    /\ script[calls].ok
    /\ routcome' = [kind |-> "return", val |-> script[calls].val]
    /\ rpc' = "done"
    /\ UNCHANGED <<script, attempt, last_error, calls, sleeps, now, busy, wakeAt,
                   startedAt, failedAt, rcallNo, rcancelled>>
    /\ UNCHANGED <<pvars, fvars, cvars, wvars>>

\* `except Exception as e`: the awaited invocation raises; the last attempt
\* breaks out of the loop into the final raise, any other starts asyncio.sleep
RetryFail ==
    /\ rpc = "inflight"
    /\ ~script[calls].ok
    /\ last_error' = RecordError(last_error, script[calls].err)
    /\ failedAt' = Append(failedAt, now)
    /\ IF IsLastAttempt(attempt)
         THEN /\ routcome' = [kind |-> "raise", error |-> ExhaustedError(last_error')]
              /\ rpc' = "done"
              /\ UNCHANGED <<sleeps, wakeAt>>
         ELSE /\ sleeps' = Append(sleeps, Backoff(attempt))
              /\ wakeAt' = now + Backoff(attempt)
              /\ rpc' = "sleeping"
              /\ UNCHANGED routcome
    /\ UNCHANGED <<script, attempt, calls, now, busy, startedAt, rcallNo, rcancelled>>
    /\ UNCHANGED <<pvars, fvars, cvars, wvars>>

\* asyncio.sleep returns; the loop takes the next value of range(...) and
\* awaits func again, or falls out of the loop into the final raise
RetryWake ==
    /\ rpc = "sleeping"
    /\ now = wakeAt
    /\ IF attempt + 1 \in AttemptRange
         THEN /\ attempt' = attempt + 1
              /\ calls' = calls + 1
              /\ busy' = 0
              /\ startedAt' = Append(startedAt, now)
              /\ rpc' = "inflight"
              /\ UNCHANGED routcome
         ELSE /\ routcome' = [kind |-> "raise", error |-> ExhaustedError(last_error)]
              /\ rpc' = "done"
              /\ UNCHANGED <<attempt, calls, busy, startedAt>>
    /\ UNCHANGED <<script, last_error, sleeps, now, wakeAt, failedAt, rcallNo, rcancelled>>
    /\ UNCHANGED <<pvars, fvars, cvars, wvars>>

RetryCancel_caught ==
    /\ rpc \in {"inflight", "sleeping"}
    /\ rcancelled' = TRUE
    /\ IF rpc = "sleeping"
         THEN /\ routcome' = [kind |-> "raise",
                              error |-> [type |-> "CancelledError", msg |-> <<>>]]
              /\ rpc' = "cancelled"
              /\ UNCHANGED <<last_error, sleeps, wakeAt, failedAt>>
         ELSE /\ last_error' = "CancelledError"
              /\ failedAt' = Append(failedAt, now)
              /\ IF IsLastAttempt(attempt)
                   THEN /\ routcome' = [kind |-> "raise", error |-> ExhaustedError(last_error')]
                        /\ rpc' = "done"
                        /\ UNCHANGED <<sleeps, wakeAt>>
                   ELSE /\ sleeps' = Append(sleeps, Backoff(attempt))
                        /\ wakeAt' = now + Backoff(attempt)
                        /\ rpc' = "sleeping"
                        /\ UNCHANGED routcome
    /\ UNCHANGED <<script, attempt, calls, now, busy, startedAt, rcallNo>>
    /\ UNCHANGED <<pvars, fvars, cvars, wvars>>

\* the task is cancelled while it awaits func or asyncio.sleep:
\* asyncio.CancelledError is raised at the await; it is a BaseException, which
\* `except Exception` does not catch, so it leaves retry_on_failure at once
RetryCancel ==
    /\ rpc \in {"inflight", "sleeping"}
    /\ rcancelled' = TRUE
    /\ routcome' = [kind |-> "raise",
                    error |-> [type |-> "CancelledError", msg |-> <<>>]]
    /\ rpc' = "cancelled"
    /\ UNCHANGED <<script, attempt, last_error, calls, sleeps, now, busy, wakeAt,
                   startedAt, failedAt, rcallNo>>
    /\ UNCHANGED <<pvars, fvars, cvars, wvars>>

\* the caller has its answer and the frame of the call is gone
RetryReturn ==
    /\ rpc \in {"done", "cancelled"}
    /\ rpc' = "idle"
    /\ script' = IdleScript
    /\ rcancelled' = FALSE
    /\ attempt' = 0
    /\ last_error' = None
    /\ calls' = 0
    /\ sleeps' = <<>>
    /\ now' = 0
    /\ busy' = 0
    /\ wakeAt' = 0
    /\ startedAt' = <<>>
    /\ failedAt' = <<>>
    /\ routcome' = NoOutcome
    /\ UNCHANGED rcallNo
    /\ UNCHANGED <<pvars, fvars, cvars, wvars>>

-----------------------------------------------------------------------------
(* Python values as the services handle them                               *)

\* a string is the sequence of the fragments it is made of
Str(s) == [t |-> "str", s |-> s]
PyNone == [t |-> "none"]
Num(n) == [t |-> "num", n |-> n, d |-> 1]
Frac(n, d) == [t |-> "num", n |-> n, d |-> d]
Dict(f) == [t |-> "dict", items |-> f]
List(q) == [t |-> "list", elems |-> q]
EmptyDict == Dict(<<>>)

\* truth value of a Python object, as `data or {}` tests it
Falsy(v) ==
    CASE v.t = "none" -> TRUE
      [] v.t = "num"  -> v.n = 0
      [] v.t = "str"  -> v.s = <<>>
      [] v.t = "dict" -> DOMAIN v.items = {}
      [] v.t = "list" -> v.elems = <<>>
      [] OTHER        -> FALSE

\* dict.get(key, default)
DictGet(v, key, default) ==
    IF key \in DOMAIN v.items THEN v.items[key] ELSE default

Raises(type, msg) == [raised |-> TRUE, exc |-> [type |-> type, msg |-> msg]]
Returns(v) == [raised |-> FALSE, value |-> v]

AIAnalysisResult_keepsFalsy(success, data, error, confidence, metadata) ==
    [success |-> success, data |-> data, error |-> error,
     confidence |-> confidence, metadata |-> metadata]

\* AIAnalysisResult.__init__
AIAnalysisResult(success, data, error, confidence, metadata) ==
    [success    |-> success,
     data       |-> IF Falsy(data) THEN EmptyDict ELSE data,
     error      |-> error,
     confidence |-> confidence,
     metadata   |-> IF Falsy(metadata) THEN EmptyDict ELSE metadata]

\* AIAnalysisResult(success=False, error=f"<prefix>{str(e)}")
Failure(prefix, msg) ==
    AIAnalysisResult(FALSE, PyNone, Str(<<prefix>> \o msg), PyNone, PyNone)

NoResult == [success |-> FALSE, data |-> PyNone, error |-> PyNone,
             confidence |-> PyNone, metadata |-> PyNone]

-----------------------------------------------------------------------------
(* GeminiService                                                           *)

\* self.model_name
model_name == "gemini-2.0-flash-exp"

\* response texts the text-generation backend is taken to answer with
TxtProse      == <<"The reciter confuses the heavy and light letters.">>
TxtPrefaced     == <<"Here is the analysis you asked for: ", "{\"confidence_score\": 0.9}">>
TxtScored     == <<"{\"mistake_patterns\": [], \"focus_areas\": [\"madd\"], \"confidence_score\": 0.9}">>
TxtUnscored   == <<"{\"mistake_patterns\": [], \"focus_areas\": [\"madd\"]}">>
TxtEmptyObj   == <<"{}">>
TxtOver       == <<"{\"confidence_score\": 1.5, \"confidence\": 7}">>
TxtUnder      == <<"{\"confidence_score\": -0.2, \"confidence\": -1}">>
TxtWord       == <<"{\"confidence_score\": \"high\", \"confidence\": \"high\"}">>
TxtCategory   == <<"{\"error_category\": \"tajweed\", \"severity_level\": 3, \"confidence\": 0.6}">>
TxtList       == <<"[\"tajweed\", \"madd\"]">>
TxtNull       == <<"null">>
TxtNumber     == <<"3">>
TxtString     == <<"\"tajweed\"">>

GeminiTexts == {TxtProse, TxtPrefaced, TxtScored, TxtUnscored, TxtEmptyObj, TxtOver,
                TxtUnder, TxtWord, TxtCategory, TxtList, TxtNull, TxtNumber, TxtString}

\* json.loads on the texts above; anything that is not a str is a TypeError
json_loads(text) ==
    IF text.t # "str" THEN Raises("TypeError", <<"the JSON object must be str, bytes or bytearray">>)
    ELSE CASE text.s = TxtScored ->
                Returns(Dict([mistake_patterns |-> List(<<>>),
                             focus_areas |-> List(<<Str(<<"madd">>)>>),
                             confidence_score |-> Num(90)]))
           [] text.s = TxtUnscored ->
                Returns(Dict([mistake_patterns |-> List(<<>>),
                             focus_areas |-> List(<<Str(<<"madd">>)>>)]))
           [] text.s = TxtEmptyObj -> Returns(EmptyDict)
           [] text.s = TxtOver ->
                Returns(Dict([confidence_score |-> Num(150), confidence |-> Num(700)]))
           [] text.s = TxtUnder ->
                Returns(Dict([confidence_score |-> Num(-20), confidence |-> Num(-100)]))
           [] text.s = TxtWord ->
                Returns(Dict([confidence_score |-> Str(<<"high">>), confidence |-> Str(<<"high">>)]))
           [] text.s = TxtCategory ->
                Returns(Dict([error_category |-> Str(<<"tajweed">>),
                             severity_level |-> Num(300),
                             confidence |-> Num(60)]))
           [] text.s = TxtList -> Returns(List(<<Str(<<"tajweed">>), Str(<<"madd">>)>>))
           [] text.s = TxtNull -> Returns(PyNone)
           [] text.s = TxtNumber -> Returns(Num(300))
           [] text.s = TxtString -> Returns(Str(<<"tajweed">>))
           [] OTHER -> Raises("JSONDecodeError", <<"Expecting value: line 1 column 1 (char 0)">>)

\* what one round trip to the text-generation backend ends with
GeminiResponses ==
    {[kind |-> "error", err |-> <<"503 UNAVAILABLE">>], [kind |-> "notext"], [kind |-> "malformed"]}
    \cup {[kind |-> "text", text |-> s] : s \in GeminiTexts}

generate_text_quiet(resp) ==
    CASE resp.kind \in {"error", "malformed", "notext"} ->
            Returns([text |-> PyNone, model_version |-> model_name, sdk_version |-> "google-genai-2025"])
      [] OTHER ->
            Returns([text |-> Str(resp.text), model_version |-> model_name, sdk_version |-> "google-genai-2025"])

\* generate_text after the awaited generate_content has ended
generate_text(resp) ==
    CASE resp.kind = "error" ->
            Raises("AIServiceError", <<"Gemini text generation failed: ">> \o resp.err)
      [] resp.kind = "malformed" ->
            Raises("AIServiceError", <<"Gemini text generation failed: ", "object has no attribute text">>)
      [] resp.kind = "notext" ->
            Returns([text |-> PyNone, model_version |-> model_name, sdk_version |-> "google-genai-2025"])
      [] OTHER ->
            Returns([text |-> Str(resp.text), model_version |-> model_name, sdk_version |-> "google-genai-2025"])

Meta(type) == Dict([model |-> Str(<<model_name>>), type |-> Str(<<type>>), sdk |-> Str(<<"google-genai-2025">>)])

NoGetAttr == <<"object has no attribute get">>

\* the json.loads / AIAnalysisResult block shared in shape by analyze_mistakes
\* and generate_insights: prefix, fallback key and metadata types differ
ParseOrFallback(resp, prefix, fallbackKey, parsedType, textType) ==
    LET g == generate_text(resp) IN
    IF g.raised THEN Failure(prefix, g.exc.msg)
    ELSE LET j == json_loads(g.value.text) IN
         IF j.raised
           THEN IF j.exc.type = "JSONDecodeError"
                  THEN AIAnalysisResult(TRUE, Dict((fallbackKey :> g.value.text)), PyNone,
                                        Num(70), Meta(textType))
                  ELSE Failure(prefix, j.exc.msg)
           ELSE IF j.value.t # "dict"
                  THEN Failure(prefix, NoGetAttr)
                  ELSE AIAnalysisResult(TRUE, j.value, PyNone,
                                        DictGet(j.value, "confidence_score", Num(80)),
                                        Meta(parsedType))

analyze_mistakes_pasted(resp) ==
    ParseOrFallback(resp, "Mistake analysis failed: ", "insights", "mistake_analysis", "text_analysis")

\* analyze_mistakes from `response = await self.generate_text(prompt)` on
analyze_mistakes(resp) ==
    ParseOrFallback(resp, "Mistake analysis failed: ", "analysis", "mistake_analysis", "text_analysis")

generate_insights_pasted(resp) ==
    ParseOrFallback(resp, "Insights generation failed: ", "analysis", "coaching_insights", "text_insights")

\* generate_insights from `response = await self.generate_text(prompt)` on
generate_insights(resp) ==
    ParseOrFallback(resp, "Insights generation failed: ", "insights", "coaching_insights", "text_insights")

categorize_mistake_soft(resp) ==
    ParseOrFallback(resp, "Mistake categorization failed: ", "categorization",
                    "mistake_categorization", "text_categorization")

\* categorize_mistake from `response = await self.generate_text(prompt)` on
categorize_mistake(resp) ==
    LET g == generate_text(resp) IN
    IF g.raised THEN Failure("Mistake categorization failed: ", g.exc.msg)
    ELSE LET j == json_loads(g.value.text) IN
         IF j.raised
           THEN IF j.exc.type = "JSONDecodeError"
                  THEN AIAnalysisResult(FALSE, PyNone, Str(<<"Failed to parse categorization response">>),
                                        PyNone, PyNone)
                  ELSE Failure("Mistake categorization failed: ", j.exc.msg)
           ELSE IF j.value.t # "dict"
                  THEN Failure("Mistake categorization failed: ", NoGetAttr)
                  ELSE AIAnalysisResult(TRUE, j.value, PyNone,
                                        DictGet(j.value, "confidence", Num(80)),
                                        Meta("mistake_categorization"))

-----------------------------------------------------------------------------
(* WhisperService                                                          *)

\* self.model
model == "whisper-1"

\* self.max_file_size = 25 * 1024 * 1024
max_file_size == 25 * 1024 * 1024

\* self.supported_formats; a name is the sequence of its characters
supported_formats ==
    { <<"m","p","3">>, <<"m","p","4">>, <<"m","p","e","g">>, <<"m","p","g","a">>,
      <<"m","4","a">>, <<"w","a","v">>, <<"w","e","b","m">>, <<"o","g","g">>,
      <<"f","l","a","c">> }

RECURSIVE Join(_, _)
\* sep.join(names) for a set of names, in one of the orders a set iterates in
Join(names, sep) ==
    IF names = {} THEN <<>>
    ELSE LET n == CHOOSE x \in names : TRUE IN
         IF names = {n} THEN n ELSE n \o <<sep>> \o Join(names \ {n}, sep)

\* ', '.join(self.supported_formats)
supported_formats_joined == Join(supported_formats, ", ")

\* str.lower on one character
LowerChar(c) ==
    CASE c = "W" -> "w" [] c = "A" -> "a" [] c = "V" -> "v"
      [] c = "M" -> "m" [] c = "P" -> "p" [] OTHER -> c

\* str.lower
Lower(s) == [i \in 1..Len(s) |-> LowerChar(s[i])]

\* name.split('.')[-1]
LastPart(s) ==
    LET dots == {i \in 1..Len(s) : s[i] = "."} IN
    IF dots = {} THEN s
    ELSE SubSeq(s, (CHOOSE i \in dots : \A j \in dots : j <= i) + 1, Len(s))

FileNames ==
    { <<"a",".","w","a","v">>, <<"a",".","W","A","V">>, <<"a",".","b",".","m","p","3">>,
      <<"a",".","t","x","t">>, <<"w","a","v">>, <<"n","o","t","e","s">>, <<"a",".">>, <<>> }

\* payload sizes of the caller's audio
AudioSizes == {0, 1, max_file_size, max_file_size + 1}

\* the caller's stream: payload size, name attribute, position, and the call
\* of the stream that raises, if any
AudioInputs ==
    { a \in [size : AudioSizes, hasName : BOOLEAN, name : FileNames,
             pos : {0, 1}, fault : {"none", "seek", "read"}] :
        /\ a.pos <= a.size
        /\ ~a.hasName => a.name = <<>> }

NoAudio == [size |-> 0, hasName |-> FALSE, name |-> <<>>, pos |-> 0, fault |-> "none"]

size_error_noEmpty(file_size) ==
    IF file_size > max_file_size
      THEN <<"Audio file too large: ", ToString(file_size),
             " bytes (max: ", ToString(max_file_size), " bytes)">>
    ELSE <<>>

\* the two size tests of validate_audio_file: the message of the error raised,
\* <<>> when none is
size_error(file_size) ==
    IF file_size > max_file_size
      THEN <<"Audio file too large: ", ToString(file_size),
             " bytes (max: ", ToString(max_file_size), " bytes)">>
    ELSE IF file_size = 0 THEN <<"Audio file is empty">>
    ELSE <<>>

format_error_caseful(a) ==
    IF a.hasName /\ a.name # <<>>
      THEN LET file_extension == LastPart(a.name) IN
           IF file_extension \notin supported_formats
             THEN <<"Unsupported audio format: ">> \o file_extension
                  \o <<". ", "Supported formats: ">> \o supported_formats_joined
           ELSE <<>>
    ELSE <<>>

\* the format test of validate_audio_file, likewise
format_error(a) ==
    IF a.hasName /\ a.name # <<>>
      THEN LET file_extension == Lower(LastPart(a.name)) IN
           IF file_extension \notin supported_formats
             THEN <<"Unsupported audio format: ">> \o file_extension
                  \o <<". ", "Supported formats: ">> \o supported_formats_joined
           ELSE <<>>
    ELSE <<>>

validate_audio_file_noRewind(a) ==
    IF a.fault = "seek"
      THEN [raised |-> TRUE, stream |-> a,
            exc |-> [type |-> "AIServiceError",
                     msg |-> <<"Audio file validation failed: ", "seek failed">>]]
    ELSE LET file_size == a.size
             s == [a EXCEPT !.pos = a.pos]
         IN IF size_error(file_size) # <<>>
              THEN [raised |-> TRUE, stream |-> s,
                    exc |-> [type |-> "AIServiceError", msg |-> size_error(file_size)]]
            ELSE IF format_error(a) # <<>>
              THEN [raised |-> TRUE, stream |-> s,
                    exc |-> [type |-> "AIServiceError", msg |-> format_error(a)]]
            ELSE [raised |-> FALSE, stream |-> s,
                  exc |-> [type |-> "none", msg |-> <<>>]]

\* validate_audio_file: the stream after the call, and the error raised if any
validate_audio_file(a) ==
    IF a.fault = "seek"
      THEN [raised |-> TRUE, stream |-> a,
            exc |-> [type |-> "AIServiceError",
                     msg |-> <<"Audio file validation failed: ", "seek failed">>]]
    ELSE LET file_size == a.size
             s == [a EXCEPT !.pos = 0]
         IN IF size_error(file_size) # <<>>
              THEN [raised |-> TRUE, stream |-> s,
                    exc |-> [type |-> "AIServiceError", msg |-> size_error(file_size)]]
            ELSE IF format_error(a) # <<>>
              THEN [raised |-> TRUE, stream |-> s,
                    exc |-> [type |-> "AIServiceError", msg |-> format_error(a)]]
            ELSE [raised |-> FALSE, stream |-> s,
                  exc |-> [type |-> "none", msg |-> <<>>]]

\* a transcript text: leading blanks, body, trailing blanks, and the
\* characters of an appended "..."
Text(lead, core, trail) == [t |-> "text", lead |-> lead, core |-> core, trail |-> trail, dots |-> 0]

\* len(text)
TextLen(x) == x.lead + x.core + x.trail + x.dots

\* len(text.strip())
StripLen(x) == x.core

Min(a, b) == IF a <= b THEN a ELSE b
Max(a, b) == IF a >= b THEN a ELSE b

\* text[:n]
Prefix(x, n) ==
    LET l == Min(x.lead, n)
        c == Min(x.core, n - l)
        r == Min(x.trail, n - l - c)
    IN [t |-> "text", lead |-> l, core |-> c, trail |-> r, dots |-> 0]

\* result.text[:100] + "..." if len(result.text) > 100 else result.text
text_sample(x) ==
    IF TextLen(x) > 100 THEN [Prefix(x, 100) EXCEPT !.dots = 3] ELSE x

\* a segment of a verbose_json transcript: avg_logprob in hundredths when the
\* attribute is there and is a number
Seg(lp) == [has |-> TRUE, lp |-> Num(lp)]
SegBare == [has |-> FALSE, lp |-> PyNone]
SegNull == [has |-> TRUE, lp |-> PyNone]

SegmentLists ==
    { <<>>, <<Seg(-25)>>, <<Seg(-300)>>, <<Seg(50)>>, <<Seg(-10), Seg(-60)>>,
      <<Seg(-40), SegBare, Seg(20)>>, <<SegBare>>, <<Seg(-50), SegNull>> }

Texts == { Text(0, 0, 0), Text(1, 10, 1), Text(0, 11, 0), Text(0, 51, 0),
           Text(0, 100, 0), Text(2, 99, 0) }

\* what one round trip to the transcription backend ends with: an error, or
\* a transcript object carrying the attributes named in attrs, its text a
\* string or None
Transcripts ==
    { [kind |-> "transcript", attrs |-> {"text", "language", "duration", "segments"},
       text |-> x, segments |-> s] : x \in Texts, s \in SegmentLists }
    \cup { [kind |-> "transcript", attrs |-> {"text", "language", "duration"},
            text |-> x, segments |-> <<>>] : x \in Texts }
    \cup { [kind |-> "transcript", attrs |-> {"language", "duration", "segments"},
            text |-> Text(0, 0, 0), segments |-> s] : s \in {<<>>, <<Seg(-25)>>} }
    \cup { [kind |-> "transcript", attrs |-> {"text"}, text |-> Text(0, 11, 0), segments |-> <<>>] }
    \cup { [kind |-> "transcript", attrs |-> {"text", "language", "duration", "segments"},
            text |-> PyNone, segments |-> s] : s \in {<<>>, <<Seg(-25)>>} }

WhisperResponses == {[kind |-> "error", err |-> <<"Connection error.">>]} \cup Transcripts

RECURSIVE SumSeq(_)
SumSeq(q) == IF q = <<>> THEN 0 ELSE Head(q) + SumSeq(Tail(q))

SegConfidence_unclamped(lp) == lp + 100

\* min(1.0, max(0.0, (segment.avg_logprob + 1.0)))
SegConfidence(lp) == Min(100, Max(0, lp + 100))

confidence_try_ge(tr) ==
    LET useSegs == "segments" \in tr.attrs /\ tr.segments # <<>>
        scored  == SelectSeq(tr.segments, LAMBDA g : g.has)
        broken  == \E i \in 1..Len(scored) : scored[i].lp.t # "num"
        confidences == [i \in 1..Len(scored) |-> SegConfidence(scored[i].lp.n)]
    IN IF useSegs /\ broken
         THEN Raises("TypeError", <<"unsupported operand type(s) for +">>)
       ELSE IF useSegs /\ scored # <<>>
         THEN Returns(Frac(SumSeq(confidences), Len(confidences)))
       ELSE IF "text" \notin tr.attrs \/ tr.text.t # "text"
         THEN Raises("AttributeError", <<"object has no attribute ", "text/strip">>)
       ELSE IF StripLen(tr.text) >= 50 THEN Returns(Num(85))
       ELSE IF StripLen(tr.text) >= 10 THEN Returns(Num(70))
       ELSE Returns(Num(50))

\* the try block of _calculate_confidence: the value returned, or the
\* exception raised by None + 1.0, by "n/a" + 1.0, or by .text.strip()
confidence_try(tr) ==
    LET useSegs == "segments" \in tr.attrs /\ tr.segments # <<>>
        scored  == SelectSeq(tr.segments, LAMBDA g : g.has)
        broken  == \E i \in 1..Len(scored) : scored[i].lp.t # "num"
        confidences == [i \in 1..Len(scored) |-> SegConfidence(scored[i].lp.n)]
    IN IF useSegs /\ broken
         THEN Raises("TypeError", <<"unsupported operand type(s) for +">>)
       ELSE IF useSegs /\ scored # <<>>
         THEN Returns(Frac(SumSeq(confidences), Len(confidences)))
       ELSE IF "text" \notin tr.attrs \/ tr.text.t # "text"
         THEN Raises("AttributeError", <<"object has no attribute ", "text/strip">>)
       ELSE IF StripLen(tr.text) > 50 THEN Returns(Num(85))
       ELSE IF StripLen(tr.text) > 10 THEN Returns(Num(70))
       ELSE Returns(Num(50))

\* _calculate_confidence
calculate_confidence(tr) ==
    IF confidence_try(tr).raised THEN Num(75) ELSE confidence_try(tr).value

WhisperMeta(type, language) ==
    Dict([model |-> Str(<<model>>), type |-> Str(<<type>>), language |-> language,
          api_version |-> Str(<<"v1.56+">>)])

MissingAttr(tr, needed) == <<"object has no attribute ", CHOOSE a \in needed \ tr.attrs : TRUE>>

\* getattr(transcript, 'segments', [])
SegmentsOf(tr) == IF "segments" \in tr.attrs THEN List(tr.segments) ELSE List(<<>>)

\* transcribe_audio from the awaited transcriptions.create on, up to the
\* return inside the inner try or the except that follows it
transcribe_audio(resp, language) ==
    LET prefix == "Audio transcription failed: " IN
    IF resp.kind = "error" THEN Failure(prefix, resp.err)
    ELSE IF ~({"text", "language", "duration"} \subseteq resp.attrs)
      THEN Failure(prefix, MissingAttr(resp, {"text", "language", "duration"}))
    ELSE AIAnalysisResult(TRUE,
            Dict([text |-> resp.text, language |-> Str(<<"ar">>), duration |-> Num(1250),
                  segments |-> SegmentsOf(resp)]),
            PyNone, calculate_confidence(resp),
            WhisperMeta("audio_transcription", language))

\* transcribe_with_timestamps, likewise
transcribe_with_timestamps(resp, language) ==
    LET prefix == "Timestamped transcription failed: " IN
    IF resp.kind = "error" THEN Failure(prefix, resp.err)
    ELSE IF ~({"text", "language", "duration"} \subseteq resp.attrs)
      THEN Failure(prefix, MissingAttr(resp, {"text", "language", "duration"}))
    ELSE AIAnalysisResult(TRUE,
            Dict([text |-> resp.text, language |-> Str(<<"ar">>), duration |-> Num(1250),
                  words |-> List(<<>>), segments |-> SegmentsOf(resp)]),
            PyNone, calculate_confidence(resp),
            WhisperMeta("timestamped_transcription", language))

detect_language_inner(resp) ==
    LET prefix == "Language detection failed: " IN
    IF resp.kind = "error" THEN Failure(prefix, resp.err)
    ELSE IF ~({"text", "language"} \subseteq resp.attrs)
      THEN Failure(prefix, MissingAttr(resp, {"text", "language"}))
    ELSE IF resp.text.t # "text"
      THEN Failure(prefix, <<"object of type NoneType has no len()">>)
    ELSE AIAnalysisResult(TRUE,
            Dict([detected_language |-> Str(<<"ar">>), text_sample |-> text_sample(resp.text),
                  confidence_score |-> calculate_confidence(resp)]),
            PyNone, calculate_confidence(resp),
            Dict([model |-> Str(<<model>>), type |-> Str(<<"language_detection">>),
                  api_version |-> Str(<<"v1.56+">>)]))

\* detect_language, likewise
detect_language(resp) ==
    LET prefix == "Language detection failed: " IN
    IF resp.kind = "error" THEN Failure(prefix, resp.err)
    ELSE IF ~({"text", "language"} \subseteq resp.attrs)
      THEN Failure(prefix, MissingAttr(resp, {"text", "language"}))
    ELSE IF resp.text.t # "text"
      THEN Failure(prefix, <<"object of type NoneType has no len()">>)
    ELSE AIAnalysisResult(TRUE,
            Dict([detected_language |-> Str(<<"ar">>), text_sample |-> text_sample(resp.text),
                  confidence_score |-> calculate_confidence(resp)]),
            PyNone, Num(80),
            Dict([model |-> Str(<<model>>), type |-> Str(<<"language_detection">>),
                  api_version |-> Str(<<"v1.56+">>)]))

-----------------------------------------------------------------------------
(* The six provider operations, one caller                                 *)

GeminiOps == {"analyze_mistakes", "generate_insights", "categorize_mistake"}
WhisperOps == {"transcribe_audio", "transcribe_with_timestamps", "detect_language"}

\* the prefix each operation's outer `except Exception as e` puts before str(e)
ErrorPrefix(o) ==
    CASE o = "analyze_mistakes"           -> "Mistake analysis failed: "
      [] o = "generate_insights"          -> "Insights generation failed: "
      [] o = "categorize_mistake"         -> "Mistake categorization failed: "
      [] o = "transcribe_audio"           -> "Audio transcription failed: "
      [] o = "transcribe_with_timestamps" -> "Timestamped transcription failed: "
      [] o = "detect_language"            -> "Language detection failed: "

\* faults of the host while the temporary file is made and filled
HostFaults == {"none", "mktemp", "write"}

\* leading round trips of a call the backend may fail
BackendFailRuns == 0 .. rate_limit_retry

\* the attributes GeminiService.__init__ leaves on the instance
GeminiAttributes ==
    [rate_limit_retry |-> rate_limit_retry,
     timeout |-> timeout,
     model_name |-> model_name,
     safety_settings |->
        [c \in {"HARM_CATEGORY_HATE_SPEECH", "HARM_CATEGORY_DANGEROUS_CONTENT",
                "HARM_CATEGORY_SEXUALLY_EXPLICIT", "HARM_CATEGORY_HARASSMENT"}
           |-> "BLOCK_MEDIUM_AND_ABOVE"]]

\* the attributes WhisperService.__init__ leaves on the instance
WhisperAttributes ==
    [rate_limit_retry |-> rate_limit_retry,
     timeout |-> timeout,
     model |-> model,
     supported_formats |-> supported_formats,
     max_file_size |-> max_file_size]

NoRequest == [kind |-> "none"]

GenerateContentConfig_warm(self) ==
    [temperature |-> 70, top_p |-> 80, top_k |-> 40, max_output_tokens |-> 2048,
     response_mime_type |-> "text/plain", safety_settings |-> self.safety_settings]

\* genai.types.GenerateContentConfig(...) of generate_text, fractions in hundredths
GenerateContentConfig(self) ==
    [temperature |-> 30, top_p |-> 80, top_k |-> 40, max_output_tokens |-> 2048,
     response_mime_type |-> "text/plain", safety_settings |-> self.safety_settings]

\* the arguments of self.client.aio.models.generate_content
generate_content_args(self) ==
    [kind |-> "generate_content", model |-> self.model_name,
     config |-> GenerateContentConfig(self)]

\* the arguments of self.client.audio.transcriptions.create; file is what the
\* reopened temporary file holds
transcriptions_create_args(o, self, file) ==
    [kind |-> "transcriptions.create", model |-> self.model,
     file |-> [first |-> file.first, bytes |-> file.bytes],
     language |-> IF o = "detect_language" THEN None ELSE "ar",
     response_format |-> "verbose_json",
     timestamp_granularities |->
        IF o = "transcribe_with_timestamps" THEN <<"word", "segment">> ELSE <<>>,
     temperature |-> 0]

NoResponse == [kind |-> "none"]

ProviderIdle ==
    /\ pc = "idle"
    /\ op = None
    /\ audio = NoAudio
    /\ records = None
    /\ tempFiles = {}
    /\ temp_file = 0
    /\ created = {}
    /\ nextFile = 1
    /\ roundTrips = 0
    /\ backendFails = 0
    /\ result = NoResult
    /\ response = NoResponse
    /\ pcallNo = 0
    /\ hangs = FALSE
    /\ waited = 0
    /\ cancelled = FALSE
    /\ config = [gemini |-> GeminiAttributes, whisper |-> WhisperAttributes]
    /\ request = NoRequest
    /\ given = NoAudio

\* a text operation from its entry to the await inside generate_text:
\* _format_mistakes_for_analysis / _format_sessions_for_analysis call .get on
\* every record, the prompt is built and generate_content is awaited
GeminiBegin(o, recs, bf, hg) ==
    /\ pc = "idle"
    /\ hg => bf = 0
    /\ waited' = 0
    /\ cancelled' = FALSE
    /\ pcallNo < MaxCalls
    /\ pcallNo' = pcallNo + 1
    /\ op' = o
    /\ records' = recs
    /\ backendFails' = bf
    /\ response' = NoResponse
    /\ IF o # "categorize_mistake" /\ recs = "objects"
         THEN /\ result' = Failure(ErrorPrefix(o), NoGetAttr)
              /\ roundTrips' = 0
              /\ hangs' = FALSE
              /\ pc' = "done"
         ELSE /\ result' = NoResult
              /\ roundTrips' = 1
              /\ hangs' = hg
              /\ pc' = "awaiting"
    /\ request' = IF pc' = "awaiting" THEN generate_content_args(config.gemini) ELSE NoRequest
    /\ given' = NoAudio
    /\ UNCHANGED <<audio, tempFiles, temp_file, created, nextFile>>
    /\ UNCHANGED config
    /\ UNCHANGED <<rvars, fvars, cvars, wvars>>

AnalyzeMistakes ==
    /\ pc = "idle"
    /\ \E recs \in {"dicts", "objects"}, bf \in BackendFailRuns, hg \in BOOLEAN :
          GeminiBegin("analyze_mistakes", recs, bf, hg)

GenerateInsights ==
    /\ pc = "idle"
    /\ \E recs \in {"dicts", "objects"}, bf \in BackendFailRuns, hg \in BOOLEAN :
          GeminiBegin("generate_insights", recs, bf, hg)

CategorizeMistake ==
    /\ pc = "idle"
    /\ \E bf \in BackendFailRuns, hg \in BOOLEAN :
          GeminiBegin("categorize_mistake", "text", bf, hg)

\* the awaited generate_content ends and the operation runs to its return
GeminiRespond ==
    /\ pc = "awaiting"
    /\ op \in GeminiOps
    /\ ~hangs
    /\ \E resp \in GeminiResponses :
          /\ (resp.kind = "error") <=> (roundTrips <= backendFails)
          /\ response' = resp
          /\ result' = CASE op = "analyze_mistakes"  -> analyze_mistakes(resp)
                         [] op = "generate_insights" -> generate_insights(resp)
                         [] OTHER                    -> categorize_mistake(resp)
    /\ pc' = "done"
    /\ UNCHANGED <<op, audio, records, tempFiles, temp_file, created, nextFile, roundTrips,
                   backendFails, pcallNo, hangs, waited, cancelled>>
    /\ UNCHANGED <<request, given>>
    /\ UNCHANGED config
    /\ UNCHANGED <<rvars, fvars, cvars, wvars>>

\* a transcription operation from its entry to the awaited
\* transcriptions.create: validate_audio_file, NamedTemporaryFile(delete=False),
\* audio_file.read(), temp_file.write(), temp_file.flush(), open(temp_file.name)
WhisperBegin(o, a, hf, bf, hg) ==
    LET v == validate_audio_file(a)
        f == nextFile
    IN
    /\ pc = "idle"
    /\ pcallNo < MaxCalls
    /\ hg => bf = 0
    /\ pcallNo' = pcallNo + 1
    /\ op' = o
    /\ backendFails' = bf
    /\ response' = NoResponse
    /\ waited' = 0
    /\ cancelled' = FALSE
    /\ IF v.raised
         THEN \* the outer except; nothing was created
              /\ audio' = v.stream
              /\ result' = Failure(ErrorPrefix(o), v.exc.msg)
              /\ UNCHANGED <<tempFiles, temp_file, created, nextFile>>
              /\ roundTrips' = 0
              /\ pc' = "done"
         ELSE IF hf = "mktemp"
         THEN \* NamedTemporaryFile raises; nothing was created
              /\ audio' = v.stream
              /\ result' = Failure(ErrorPrefix(o), <<"No usable temporary directory found">>)
              /\ UNCHANGED <<tempFiles, temp_file, created, nextFile>>
              /\ roundTrips' = 0
              /\ pc' = "done"
         ELSE IF v.stream.fault = "read" \/ hf = "write"
         THEN \* read() or write()/flush() raises before the inner try is
              \* entered: the with block closes the file, which was made with
              \* delete=False, and the outer except returns
              /\ audio' = IF v.stream.fault = "read" THEN v.stream
                          ELSE [v.stream EXCEPT !.pos = v.stream.size]
              /\ result' = Failure(ErrorPrefix(o),
                                   IF v.stream.fault = "read" THEN <<"read failed">>
                                   ELSE <<"No space left on device">>)
              /\ tempFiles' = tempFiles \cup {[name |-> f, first |-> 0, bytes |-> 0]}
              /\ temp_file' = f
              /\ created' = {f}
              /\ nextFile' = f + 1
              /\ roundTrips' = 0
              /\ pc' = "done"
         ELSE /\ audio' = [v.stream EXCEPT !.pos = v.stream.size]
              /\ result' = NoResult
              /\ tempFiles' = tempFiles \cup
                     {[name |-> f, first |-> v.stream.pos, bytes |-> v.stream.size - v.stream.pos]}
              /\ temp_file' = f
              /\ created' = {f}
              /\ nextFile' = f + 1
              /\ roundTrips' = 1
              /\ pc' = "awaiting"
    /\ hangs' = (hg /\ pc' = "awaiting")
    /\ request' = IF pc' = "awaiting"
                    THEN transcriptions_create_args(o, config.whisper,
                                                    CHOOSE t \in tempFiles' : t.name = f)
                  ELSE NoRequest
    /\ given' = a
    /\ UNCHANGED records
    /\ UNCHANGED config
    /\ UNCHANGED <<rvars, fvars, cvars, wvars>>

TranscribeAudio ==
    /\ pc = "idle"
    /\ \E a \in AudioInputs, hf \in HostFaults, bf \in BackendFailRuns, hg \in BOOLEAN :
          WhisperBegin("transcribe_audio", a, hf, bf, hg)

TranscribeWithTimestamps ==
    /\ pc = "idle"
    /\ \E a \in AudioInputs, hf \in HostFaults, bf \in BackendFailRuns, hg \in BOOLEAN :
          WhisperBegin("transcribe_with_timestamps", a, hf, bf, hg)

DetectLanguage ==
    /\ pc = "idle"
    /\ \E a \in AudioInputs, hf \in HostFaults, bf \in BackendFailRuns, hg \in BOOLEAN :
          WhisperBegin("detect_language", a, hf, bf, hg)

\* `if os.path.exists(temp_file.name): os.unlink(temp_file.name)`
Unlink(files, name) == {x \in files : x.name # name}

\* the awaited transcriptions.create ends; the result is built or the error
\* caught, and the finally clause runs on the way out
WhisperRespond ==
    /\ pc = "awaiting"
    /\ op \in WhisperOps
    /\ ~hangs
    /\ \E resp \in WhisperResponses :
          /\ (resp.kind = "error") <=> (roundTrips <= backendFails)
          /\ response' = resp
          /\ result' = CASE op = "transcribe_audio" -> transcribe_audio(resp, Str(<<"ar">>))
                         [] op = "transcribe_with_timestamps" ->
                                transcribe_with_timestamps(resp, Str(<<"ar">>))
                         [] OTHER -> detect_language(resp)
    /\ tempFiles' = Unlink(tempFiles, temp_file)
    /\ pc' = "done"
    /\ UNCHANGED <<op, audio, records, temp_file, created, nextFile, roundTrips,
                   backendFails, pcallNo, hangs, waited, cancelled>>
    /\ UNCHANGED <<request, given>>
    /\ UNCHANGED config
    /\ UNCHANGED <<rvars, fvars, cvars, wvars>>

\* time passes while the awaited round trip gets no answer: no statement of
\* either service bounds the wait (self.timeout is assigned and never read)
WaitTick ==
    /\ pc = "awaiting"
    /\ hangs
    /\ waited < MaxWait
    /\ waited' = waited + 1
    /\ UNCHANGED <<pc, op, audio, records, tempFiles, temp_file, created, nextFile,
                   roundTrips, backendFails, result, response, pcallNo, hangs, cancelled>>
    /\ UNCHANGED <<request, given>>
    /\ UNCHANGED config
    /\ UNCHANGED <<rvars, fvars, cvars, wvars>>

\* the task is cancelled while it awaits the backend: asyncio.CancelledError
\* is raised at the await, the finally clause of a transcription operation
\* unlinks its file, and `except Exception` lets the BaseException through
Cancel ==
    /\ pc = "awaiting"
    /\ cancelled' = TRUE
    /\ pc' = "cancelled"
    /\ tempFiles' = IF op \in WhisperOps THEN Unlink(tempFiles, temp_file) ELSE tempFiles
    /\ UNCHANGED <<op, audio, records, temp_file, created, nextFile, roundTrips,
                   backendFails, result, response, pcallNo, hangs, waited>>
    /\ UNCHANGED <<request, given>>
    /\ UNCHANGED config
    /\ UNCHANGED <<rvars, fvars, cvars, wvars>>

\* the caller has the AIAnalysisResult or the CancelledError; the frame of the
\* call is gone, the host keeps its files
Return ==
    /\ pc \in {"done", "cancelled"}
    /\ pc' = "idle"
    /\ hangs' = FALSE
    /\ waited' = 0
    /\ cancelled' = FALSE
    /\ op' = None
    /\ audio' = NoAudio
    /\ records' = None
    /\ temp_file' = 0
    /\ created' = {}
    /\ roundTrips' = 0
    /\ backendFails' = 0
    /\ result' = NoResult
    /\ response' = NoResponse
    /\ UNCHANGED <<tempFiles, nextFile, pcallNo>>
    /\ request' = NoRequest
    /\ given' = NoAudio
    /\ UNCHANGED config
    /\ UNCHANGED <<rvars, fvars, cvars, wvars>>

-----------------------------------------------------------------------------
(* The constructors and the synchronous helpers, each called on its own    *)

\* what os.getenv hands to a constructor: None, "" or a key
ApiKeys == {PyNone, Str(<<>>), Str(<<" ">>), Str(<<"AIzaSy-test">>), Str(<<"sk-test">>)}

validate_api_key_noneOnly(api_key) ==
    IF api_key.t = "none"
      THEN Raises("AIServiceError", <<"API key is required but not provided">>)
    ELSE Returns(api_key)

\* AIService.validate_api_key
validate_api_key(api_key) ==
    IF Falsy(api_key)
      THEN Raises("AIServiceError", <<"API key is required but not provided">>)
    ELSE Returns(api_key)

\* what a constructor call leaves: the exception or the instance, and the
\* backend clients created on the way
NoInstance == PyNone

\* GeminiService.__init__ with GEMINI_API_KEY = key
GeminiService(key) ==
    LET v == validate_api_key(key) IN
    IF v.raised
      THEN [raised |-> TRUE, exc |-> v.exc, instance |-> NoInstance, clients |-> <<>>]
    ELSE [raised |-> FALSE, exc |-> [type |-> "none", msg |-> <<>>],
          instance |-> Dict([api_key |-> v.value, rate_limit_retry |-> Num(rate_limit_retry),
                             timeout |-> Num(timeout), model_name |-> Str(<<model_name>>)]),
          clients |-> <<[kind |-> "genai.Client", api_key |-> v.value]>>]

\* WhisperService.__init__ with OPENAI_API_KEY = key
WhisperService(key) ==
    LET v == validate_api_key(key) IN
    IF v.raised
      THEN [raised |-> TRUE, exc |-> v.exc, instance |-> NoInstance, clients |-> <<>>]
    ELSE [raised |-> FALSE, exc |-> [type |-> "none", msg |-> <<>>],
          instance |-> Dict([api_key |-> v.value, rate_limit_retry |-> Num(rate_limit_retry),
                             timeout |-> Num(timeout), model |-> Str(<<model>>)]),
          clients |-> <<[kind |-> "AsyncOpenAI", api_key |-> v.value]>>]

\* keys an input dictionary may hold and a caller may require
Fields == {"audio", "language", "prompt"}

\* the input_data of validate_input: dictionaries over Fields
InputDicts == { Dict([k \in S |-> Str(<<k>>)]) : S \in SUBSET Fields }

\* the required_fields of validate_input: None, or a list of at most
\* MaxFields names
RequiredLists ==
    {PyNone} \cup UNION { { List(q) : q \in [1..n -> Fields] } : n \in 0..MaxFields }

validate_input_last(input_data, required_fields) ==
    IF Falsy(required_fields)
      THEN [raised |-> FALSE, exc |-> [type |-> "none", msg |-> <<>>],
            examined |-> 0, input_data |-> input_data]
    ELSE LET fields == required_fields.elems
             missing == { i \in 1..Len(fields) : fields[i] \notin DOMAIN input_data.items }
         IN IF missing = {}
              THEN [raised |-> FALSE, exc |-> [type |-> "none", msg |-> <<>>],
                    examined |-> Len(fields), input_data |-> input_data]
            ELSE LET i == CHOOSE m \in missing : \A k \in missing : k <= m IN
                 [raised |-> TRUE,
                  exc |-> [type |-> "AIServiceError",
                           msg |-> <<"Required field '", fields[i], "' missing from input data">>],
                  examined |-> i, input_data |-> input_data]

\* AIService.validate_input: the error raised if any, how many entries of
\* required_fields the loop tested, and input_data after the call
validate_input(input_data, required_fields) ==
    IF Falsy(required_fields)
      THEN [raised |-> FALSE, exc |-> [type |-> "none", msg |-> <<>>],
            examined |-> 0, input_data |-> input_data]
    ELSE LET fields == required_fields.elems
             missing == { i \in 1..Len(fields) : fields[i] \notin DOMAIN input_data.items }
         IN IF missing = {}
              THEN [raised |-> FALSE, exc |-> [type |-> "none", msg |-> <<>>],
                    examined |-> Len(fields), input_data |-> input_data]
            ELSE LET i == CHOOSE m \in missing : \A k \in missing : m <= k IN
                 [raised |-> TRUE,
                  exc |-> [type |-> "AIServiceError",
                           msg |-> <<"Required field '", fields[i], "' missing from input data">>],
                  examined |-> i, input_data |-> input_data]

\* avg_logprob values of a segment, in hundredths, the extreme ones included
LogProbs == {-100000, -150, -100, -50, 0, 50, 100000}

\* a segment whose avg_logprob is not a number
SegWord == [has |-> TRUE, lp |-> Str(<<"n/a">>)]

SegKinds == { Seg(lp) : lp \in LogProbs } \cup {SegBare, SegNull, SegWord}

\* the transcripts _calculate_confidence is handed: with or without segments
\* and text, up to MaxSegs segments of every kind
ConfTranscripts ==
    { tr \in [kind : {"transcript"},
              attrs : SUBSET {"text", "segments"},
              text : {PyNone, Text(0, 0, 0), Text(3, 10, 2), Text(0, 11, 0),
                      Text(0, 50, 0), Text(1, 51, 1)},
              segments : UNION { [1..n -> SegKinds] : n \in 0..MaxSegs }] :
        /\ "text" \notin tr.attrs => tr.text = PyNone
        /\ "segments" \notin tr.attrs => tr.segments = <<>> }

PureIdle ==
    /\ fn = None
    /\ arg = PyNone
    /\ out = PyNone

\* GeminiService() with the environment holding key
ConstructGemini ==
    /\ fn = None
    /\ \E key \in ApiKeys :
          /\ fn' = "GeminiService"
          /\ arg' = key
          /\ out' = GeminiService(key)
          /\ UNCHANGED <<rvars, pvars, cvars, wvars>>

\* WhisperService() with the environment holding key
ConstructWhisper ==
    /\ fn = None
    /\ \E key \in ApiKeys :
          /\ fn' = "WhisperService"
          /\ arg' = key
          /\ out' = WhisperService(key)
          /\ UNCHANGED <<rvars, pvars, cvars, wvars>>

ValidateApiKey ==
    /\ fn = None
    /\ \E key \in ApiKeys :
          /\ fn' = "validate_api_key"
          /\ arg' = key
          /\ out' = validate_api_key(key)
          /\ UNCHANGED <<rvars, pvars, cvars, wvars>>

ValidateInput ==
    /\ fn = None
    /\ \E d \in InputDicts, r \in RequiredLists :
          /\ fn' = "validate_input"
          /\ arg' = [input_data |-> d, required_fields |-> r]
          /\ out' = validate_input(d, r)
          /\ UNCHANGED <<rvars, pvars, cvars, wvars>>

ValidateAudio ==
    /\ fn = None
    /\ \E a \in AudioInputs :
          /\ fn' = "validate_audio_file"
          /\ arg' = a
          /\ out' = validate_audio_file(a)
          /\ UNCHANGED <<rvars, pvars, cvars, wvars>>

EstimateConfidence ==
    /\ fn = None
    /\ \E tr \in ConfTranscripts :
          /\ fn' = "_calculate_confidence"
          /\ arg' = tr
          /\ out' = calculate_confidence(tr)
          /\ UNCHANGED <<rvars, pvars, cvars, wvars>>

-----------------------------------------------------------------------------
(* Two tasks of one event loop, each calling retry_on_failure on the same  *)
(* AIService instance. attempt and last_error are locals of the coroutine; *)
(* self.rate_limit_retry is only read. A step is the code between awaits.  *)

Tasks == {1, 2}

Other(i) == 3 - i

\* whether the k-th invocation of a task's operation succeeds
PairScripts == [1..rate_limit_retry -> BOOLEAN]

\* the error the k-th invocation raises when it fails
ErrAt(k) == <<"e1", "e2", "e3">>[k]

IdlePairScript == [k \in 1..rate_limit_retry |-> TRUE]

PairIdle ==
    /\ cpc = [i \in Tasks |-> "idle"]
    /\ cscript = [i \in Tasks |-> IdlePairScript]
    /\ cattempt = [i \in Tasks |-> 0]
    /\ clast = [i \in Tasks |-> None]
    /\ ccalls = [i \in Tasks |-> 0]
    /\ csleeps = [i \in Tasks |-> <<>>]
    /\ cleft = [i \in Tasks |-> 0]
    /\ cslept = [i \in Tasks |-> 0]
    /\ cout = [i \in Tasks |-> NoOutcome]
    /\ cduring = [i \in Tasks |-> FALSE]
    /\ cno = 0

CallStart_shared(i) ==
    /\ cpc[i] = "idle"
    /\ cno < MaxPairCalls
    /\ cno' = cno + 1
    /\ \E sc \in PairScripts : cscript' = [cscript EXCEPT ![i] = sc]
    /\ clast' = [clast EXCEPT ![i] = None]
    /\ cattempt' = [cattempt EXCEPT ![i] = cattempt[Other(i)]]
    /\ ccalls' = [ccalls EXCEPT ![i] = 1]
    /\ csleeps' = [csleeps EXCEPT ![i] = <<>>]
    /\ cout' = [cout EXCEPT ![i] = NoOutcome]
    /\ cduring' = [cduring EXCEPT ![i] = cpc[Other(i)] \in {"inflight", "sleeping"}]
    /\ cpc' = [cpc EXCEPT ![i] = "inflight"]
    /\ UNCHANGED <<cleft, cslept>>
    /\ UNCHANGED <<rvars, pvars, fvars, wvars>>

\* task i enters retry_on_failure: last_error = None, attempt 0, func awaited
CallStart(i) ==
    /\ cpc[i] = "idle"
    /\ cno < MaxPairCalls
    /\ cno' = cno + 1
    /\ \E sc \in PairScripts : cscript' = [cscript EXCEPT ![i] = sc]
    /\ clast' = [clast EXCEPT ![i] = None]
    /\ cattempt' = [cattempt EXCEPT ![i] = 0]
    /\ ccalls' = [ccalls EXCEPT ![i] = 1]
    /\ csleeps' = [csleeps EXCEPT ![i] = <<>>]
    /\ cout' = [cout EXCEPT ![i] = NoOutcome]
    /\ cduring' = [cduring EXCEPT ![i] = cpc[Other(i)] \in {"inflight", "sleeping"}]
    /\ cpc' = [cpc EXCEPT ![i] = "inflight"]
    /\ UNCHANGED <<cleft, cslept>>
    /\ UNCHANGED <<rvars, pvars, fvars, wvars>>

\* `return await func(*args, **kwargs)` of task i returns
CallSucceed(i) ==
    /\ cpc[i] = "inflight"
    /\ cscript[i][ccalls[i]]
    /\ cout' = [cout EXCEPT ![i] = [kind |-> "return", val |-> "v1"]]
    /\ cpc' = [cpc EXCEPT ![i] = "done"]
    /\ UNCHANGED <<cscript, cattempt, clast, ccalls, csleeps, cleft, cslept, cduring, cno>>
    /\ UNCHANGED <<rvars, pvars, fvars, wvars>>

CallFail_eager(i) ==
    /\ cpc[i] = "inflight"
    /\ ~cscript[i][ccalls[i]]
    /\ clast' = [clast EXCEPT ![i] = RecordError(clast[i], ErrAt(ccalls[i]))]
    /\ IF IsLastAttempt(cattempt[i])
         THEN /\ cout' = [cout EXCEPT ![i] =
                            [kind |-> "raise", error |-> ExhaustedError(clast'[i])]]
              /\ cpc' = [cpc EXCEPT ![i] = "done"]
              /\ UNCHANGED <<csleeps, cleft, cslept, cattempt, ccalls>>
         ELSE /\ csleeps' = [csleeps EXCEPT ![i] = Append(@, Backoff(cattempt[i]))]
              /\ cattempt' = [cattempt EXCEPT ![i] = @ + 1]
              /\ ccalls' = [ccalls EXCEPT ![i] = @ + 1]
              /\ UNCHANGED <<cout, cpc, cleft, cslept>>
    /\ UNCHANGED <<cscript, cduring, cno>>
    /\ UNCHANGED <<rvars, pvars, fvars, wvars>>

\* `except Exception as e` of task i: the last attempt breaks into the final
\* raise, any other awaits asyncio.sleep(2 ** attempt)
CallFail(i) ==
    /\ cpc[i] = "inflight"
    /\ ~cscript[i][ccalls[i]]
    /\ clast' = [clast EXCEPT ![i] = RecordError(clast[i], ErrAt(ccalls[i]))]
    /\ IF IsLastAttempt(cattempt[i])
         THEN /\ cout' = [cout EXCEPT ![i] =
                            [kind |-> "raise", error |-> ExhaustedError(clast'[i])]]
              /\ cpc' = [cpc EXCEPT ![i] = "done"]
              /\ UNCHANGED <<csleeps, cleft, cslept>>
         ELSE /\ csleeps' = [csleeps EXCEPT ![i] = Append(@, Backoff(cattempt[i]))]
              /\ cleft' = [cleft EXCEPT ![i] = Backoff(cattempt[i])]
              /\ cslept' = [cslept EXCEPT ![i] = 0]
              /\ cpc' = [cpc EXCEPT ![i] = "sleeping"]
              /\ UNCHANGED cout
    /\ UNCHANGED <<cscript, cattempt, ccalls, cduring, cno>>
    /\ UNCHANGED <<rvars, pvars, fvars, wvars>>

\* a time unit passes for every pending asyncio.sleep
PairTick ==
    /\ \E i \in Tasks : cpc[i] = "sleeping"
    /\ \A i \in Tasks : cpc[i] = "sleeping" => cleft[i] > 0
    /\ cleft' = [i \in Tasks |-> IF cpc[i] = "sleeping" THEN cleft[i] - 1 ELSE cleft[i]]
    /\ cslept' = [i \in Tasks |-> IF cpc[i] = "sleeping" THEN cslept[i] + 1 ELSE cslept[i]]
    /\ UNCHANGED <<cpc, cscript, cattempt, clast, ccalls, csleeps, cout, cduring, cno>>
    /\ UNCHANGED <<rvars, pvars, fvars, wvars>>

\* asyncio.sleep of task i returns and the loop awaits func again
CallWake(i) ==
    /\ cpc[i] = "sleeping"
    /\ cleft[i] = 0
    /\ cattempt' = [cattempt EXCEPT ![i] = @ + 1]
    /\ ccalls' = [ccalls EXCEPT ![i] = @ + 1]
    /\ cpc' = [cpc EXCEPT ![i] = "inflight"]
    /\ UNCHANGED <<cscript, clast, csleeps, cleft, cslept, cout, cduring, cno>>
    /\ UNCHANGED <<rvars, pvars, fvars, wvars>>

\* the caller of task i has its answer and the frame of the call is gone
CallReturn(i) ==
    /\ cpc[i] = "done"
    /\ cpc' = [cpc EXCEPT ![i] = "idle"]
    /\ cscript' = [cscript EXCEPT ![i] = IdlePairScript]
    /\ cattempt' = [cattempt EXCEPT ![i] = 0]
    /\ clast' = [clast EXCEPT ![i] = None]
    /\ ccalls' = [ccalls EXCEPT ![i] = 0]
    /\ csleeps' = [csleeps EXCEPT ![i] = <<>>]
    /\ cleft' = [cleft EXCEPT ![i] = 0]
    /\ cslept' = [cslept EXCEPT ![i] = 0]
    /\ cout' = [cout EXCEPT ![i] = NoOutcome]
    /\ cduring' = [cduring EXCEPT ![i] = FALSE]
    /\ UNCHANGED cno
    /\ UNCHANGED <<rvars, pvars, fvars, wvars>>


-----------------------------------------------------------------------------
(* Two tasks of one event loop, each calling transcribe_audio on the same  *)
(* WhisperService instance. NamedTemporaryFile creates its file under a    *)
(* name no existing file has; temp_file is a local of the coroutine.       *)

\* names NamedTemporaryFile may give a file
TempNames == 1..MaxPairCalls

Payloads == {"a", "b"}

NoFile == [content |-> None, owner |-> 0]

TransIdle ==
    /\ wpc = [i \in Tasks |-> "idle"]
    /\ wfile = [i \in Tasks |-> 0]
    /\ waudio = [i \in Tasks |-> None]
    /\ wsent = [i \in Tasks |-> NoFile]
    /\ whost = {}
    /\ wno = 0

\* what open(name, "rb") reads on the host h
FileAt(h, name) ==
    IF \E f \in h : f.name = name
      THEN LET f == CHOOSE g \in h : g.name = name IN [content |-> f.content, owner |-> f.owner]
    ELSE NoFile

TransBegin_fixedName(i, a, hf) ==
    /\ wpc[i] = "idle"
    /\ wno < MaxPairCalls
    /\ wno' = wno + 1
    /\ waudio' = [waudio EXCEPT ![i] = a]
    /\ LET n == 1
           rest == { f \in whost : f.name # n }
       IN /\ wfile' = [wfile EXCEPT ![i] = n]
          /\ IF hf = "write"
               THEN /\ whost' = rest \cup {[name |-> n, content |-> <<>>, owner |-> i]}
                    /\ wpc' = [wpc EXCEPT ![i] = "done"]
                    /\ UNCHANGED wsent
               ELSE /\ whost' = rest \cup {[name |-> n, content |-> a, owner |-> i]}
                    /\ wsent' = [wsent EXCEPT ![i] = FileAt(whost', n)]
                    /\ wpc' = [wpc EXCEPT ![i] = "awaiting"]
    /\ UNCHANGED <<rvars, pvars, fvars, cvars>>

\* transcribe_audio of task i from its entry to the awaited
\* transcriptions.create, with valid audio a: the file is created, written and
\* opened again by name; a failing write leaves the outer except to return
TransBegin(i, a, hf) ==
    /\ wpc[i] = "idle"
    /\ wno < MaxPairCalls
    /\ wno' = wno + 1
    /\ waudio' = [waudio EXCEPT ![i] = a]
    /\ \E n \in TempNames \ { f.name : f \in whost } :
          /\ wfile' = [wfile EXCEPT ![i] = n]
          /\ IF hf = "write"
               THEN /\ whost' = whost \cup {[name |-> n, content |-> <<>>, owner |-> i]}
                    /\ wpc' = [wpc EXCEPT ![i] = "done"]
                    /\ UNCHANGED wsent
               ELSE /\ whost' = whost \cup {[name |-> n, content |-> a, owner |-> i]}
                    /\ wsent' = [wsent EXCEPT ![i] = FileAt(whost', n)]
                    /\ wpc' = [wpc EXCEPT ![i] = "awaiting"]
    /\ UNCHANGED <<rvars, pvars, fvars, cvars>>

\* the round trip of task i ends, in a transcript or an error, and the
\* finally clause unlinks temp_file.name if it exists
TransEnd(i) ==
    /\ wpc[i] = "awaiting"
    /\ whost' = { f \in whost : f.name # wfile[i] }
    /\ wpc' = [wpc EXCEPT ![i] = "done"]
    /\ UNCHANGED <<wfile, waudio, wsent, wno>>
    /\ UNCHANGED <<rvars, pvars, fvars, cvars>>

\* the caller of task i has its AIAnalysisResult
TransReturn(i) ==
    /\ wpc[i] = "done"
    /\ wpc' = [wpc EXCEPT ![i] = "idle"]
    /\ wfile' = [wfile EXCEPT ![i] = 0]
    /\ waudio' = [waudio EXCEPT ![i] = None]
    /\ wsent' = [wsent EXCEPT ![i] = NoFile]
    /\ UNCHANGED <<whost, wno>>
    /\ UNCHANGED <<rvars, pvars, fvars, cvars>>

PairTranscribe ==
    \E i \in Tasks, a \in Payloads, hf \in {"none", "write"} : TransBegin(i, a, hf)

-----------------------------------------------------------------------------
(* retry_on_failure handed one of the six provider operations as func      *)

\* retry_on_failure is entered with a provider operation as func: attempt 0,
\* and the operation's coroutine is awaited
WrapStart ==
    /\ rpc = "idle"
    /\ pc = "idle"
    /\ rcallNo < MaxRetryCalls
    /\ rcallNo' = rcallNo + 1
    /\ script' = IdleScript
    /\ rcancelled' = FALSE
    /\ last_error' = None
    /\ attempt' = 0
    /\ calls' = 1
    /\ sleeps' = <<>>
    /\ now' = 0
    /\ busy' = 0
    /\ wakeAt' = 0
    /\ startedAt' = <<0>>
    /\ failedAt' = <<>>
    /\ routcome' = NoOutcome
    /\ rpc' = "inflight"
    /\ UNCHANGED <<pvars, fvars, cvars, wvars>>

WrapEnd_raising ==
    /\ rpc = "inflight"
    /\ pc \in {"done", "cancelled"}
    /\ IF pc = "done" /\ result.success
         THEN /\ routcome' = [kind |-> "return", val |-> result]
              /\ rpc' = "done"
              /\ UNCHANGED <<rcancelled, last_error, failedAt, sleeps, wakeAt>>
         ELSE IF pc = "done"
         THEN /\ last_error' = RecordError(last_error, "e3")
              /\ failedAt' = Append(failedAt, now)
              /\ sleeps' = Append(sleeps, Backoff(attempt))
              /\ wakeAt' = now + Backoff(attempt)
              /\ rpc' = "sleeping"
              /\ UNCHANGED <<rcancelled, routcome>>
         ELSE /\ routcome' = [kind |-> "raise",
                              error |-> [type |-> "CancelledError", msg |-> <<>>]]
              /\ rcancelled' = TRUE
              /\ rpc' = "cancelled"
              /\ UNCHANGED <<last_error, failedAt, sleeps, wakeAt>>
    /\ pc' = "idle"
    /\ hangs' = FALSE
    /\ waited' = 0
    /\ cancelled' = FALSE
    /\ op' = None
    /\ audio' = NoAudio
    /\ records' = None
    /\ temp_file' = 0
    /\ created' = {}
    /\ roundTrips' = 0
    /\ backendFails' = 0
    /\ result' = NoResult
    /\ response' = NoResponse
    /\ request' = NoRequest
    /\ given' = NoAudio
    /\ UNCHANGED <<tempFiles, nextFile, pcallNo, config>>
    /\ UNCHANGED <<script, attempt, calls, now, busy, startedAt, rcallNo>>
    /\ UNCHANGED <<fvars, cvars, wvars>>

\* the operation's coroutine ends inside `return await func(*args, **kwargs)`:
\* its AIAnalysisResult is the return value of retry_on_failure, and the
\* CancelledError of a cancelled task passes `except Exception`
WrapEnd ==
    /\ rpc = "inflight"
    /\ pc \in {"done", "cancelled"}
    /\ IF pc = "done"
         THEN /\ routcome' = [kind |-> "return", val |-> result]
              /\ rpc' = "done"
              /\ UNCHANGED rcancelled
         ELSE /\ routcome' = [kind |-> "raise",
                              error |-> [type |-> "CancelledError", msg |-> <<>>]]
              /\ rcancelled' = TRUE
              /\ rpc' = "cancelled"
    /\ pc' = "idle"
    /\ hangs' = FALSE
    /\ waited' = 0
    /\ cancelled' = FALSE
    /\ op' = None
    /\ audio' = NoAudio
    /\ records' = None
    /\ temp_file' = 0
    /\ created' = {}
    /\ roundTrips' = 0
    /\ backendFails' = 0
    /\ result' = NoResult
    /\ response' = NoResponse
    /\ request' = NoRequest
    /\ given' = NoAudio
    /\ UNCHANGED <<tempFiles, nextFile, pcallNo, config>>
    /\ UNCHANGED <<script, attempt, last_error, calls, sleeps, now, busy, wakeAt,
                   startedAt, failedAt, rcallNo>>
    /\ UNCHANGED <<fvars, cvars, wvars>>

\* the helper or constructor has returned or raised, and the caller goes on
PureReturn ==
    /\ fn # None
    /\ fn' = None
    /\ arg' = PyNone
    /\ out' = PyNone
    /\ UNCHANGED <<rvars, pvars, cvars, wvars>>

Next ==
    \/ AnalyzeMistakes
    \/ GenerateInsights
    \/ CategorizeMistake
    \/ GeminiRespond
    \/ TranscribeAudio
    \/ TranscribeWithTimestamps
    \/ DetectLanguage
    \/ WhisperRespond
    \/ WaitTick
    \/ Cancel
    \/ Return

NextRetry ==
    \/ RetryStart
    \/ RetryTick
    \/ RetrySucceed
    \/ RetryFail
    \/ RetryWake
    \/ RetryCancel
    \/ RetryReturn

Init == RetryIdle /\ script = IdleScript /\ ProviderIdle /\ PureIdle /\ PairIdle /\ TransIdle

InitRetry == RetryIdle /\ script = IdleScript /\ ProviderIdle /\ PureIdle /\ PairIdle /\ TransIdle

\* the helpers and constructors, called in any order
NextPure ==
    \/ ConstructGemini
    \/ ConstructWhisper
    \/ ValidateApiKey
    \/ ValidateInput
    \/ ValidateAudio
    \/ EstimateConfidence
    \/ PureReturn

\* one task: it calls retry_on_failure, or it calls the provider operations
NextTask ==
    \/ pc = "idle" /\ pcallNo = 0 /\ NextRetry
    \/ rpc = "idle" /\ rcallNo = 0 /\ Next

Spec == Init /\ [][Next]_vars

SpecRetry == InitRetry /\ [][NextRetry]_vars

SpecPure == Init /\ [][NextPure]_vars

SpecTask == Init /\ [][NextTask]_vars

\* two tasks interleave their calls of retry_on_failure
NextPair ==
    \/ \E i \in Tasks : CallStart(i)
    \/ \E i \in Tasks : CallSucceed(i)
    \/ \E i \in Tasks : CallFail(i)
    \/ PairTick
    \/ \E i \in Tasks : CallWake(i)
    \/ \E i \in Tasks : CallReturn(i)

SpecPair == Init /\ [][NextPair]_vars

\* one task runs provider operations through retry_on_failure: the steps of
\* the operation are taken while retry_on_failure awaits it
NextWrapped ==
    \/ WrapStart
    \/ rpc = "inflight" /\ AnalyzeMistakes
    \/ rpc = "inflight" /\ GenerateInsights
    \/ rpc = "inflight" /\ CategorizeMistake
    \/ rpc = "inflight" /\ GeminiRespond
    \/ rpc = "inflight" /\ TranscribeAudio
    \/ rpc = "inflight" /\ TranscribeWithTimestamps
    \/ rpc = "inflight" /\ DetectLanguage
    \/ rpc = "inflight" /\ WhisperRespond
    \/ rpc = "inflight" /\ WaitTick
    \/ rpc = "inflight" /\ Cancel
    \/ WrapEnd
    \/ RetryReturn

SpecWrapped == Init /\ [][NextWrapped]_vars

\* two tasks interleave their calls of transcribe_audio
NextTrans ==
    \/ PairTranscribe
    \/ \E i \in Tasks : TransEnd(i)
    \/ \E i \in Tasks : TransReturn(i)

SpecTrans == Init /\ [][NextTrans]_vars

-----------------------------------------------------------------------------
(* Properties                                                              *)

\* index of the first invocation within the attempt budget that the scripted
\* operation answers with a success, 0 when it has none
FirstSuccess(sc) ==
    IF \E k \in 1..3 : sc[k].ok
      THEN CHOOSE k \in 1..3 : sc[k].ok /\ \A j \in 1..(k - 1) : ~sc[j].ok
      ELSE 0

\* C1: with an attempt budget of 3, an operation whose first success is its
\* k-th invocation (1 <= k <= 3) is invoked exactly k times and its value is
\* returned unchanged; an operation that fails 3 times is invoked exactly 3
\* times and the call raises; there is never a 4th invocation, and every
\* invocation but the current one has failed (none follows a success).
C1_RetryInvocations ==
    /\ calls <= 3
    /\ \A i \in 1..(calls - 1) : ~script[i].ok
    /\ rpc = "done" =>
         LET k == FirstSuccess(script) IN
         IF k # 0
           THEN calls = k /\ routcome = [kind |-> "return", val |-> script[k].val]
           ELSE calls = 3 /\ routcome.kind = "raise"
                /\ routcome.error.type = "AIServiceError"

\* an operation failing twice and then succeeding has been invoked 3 times
C1_Witness ==
    /\ rpc = "done"
    /\ ~script[1].ok /\ ~script[2].ok /\ script[3].ok
    /\ calls = 3
    /\ routcome.kind = "return"

\* C2: the failure of attempt k that is not the last attempt is followed by a
\* suspension of exactly 2^k time units, after which attempt k+1 begins; there
\* is no suspension after the last failed attempt, after a success, or before
\* attempt 0.
C2_BackoffSchedule ==
    /\ Len(sleeps) = Cardinality({i \in 1..Len(failedAt) : i < 3})
    /\ \A i \in 1..Len(sleeps) : sleeps[i] = Pow2(i - 1)
    /\ rpc # "idle" => startedAt[1] = 0
    /\ \A i \in 2..Len(startedAt) : startedAt[i] - failedAt[i - 1] = Pow2(i - 2)
    /\ rpc = "done" /\ routcome.kind = "raise" => now = failedAt[Len(failedAt)]
    /\ rpc = "sleeping" => Len(sleeps) = Len(failedAt) /\ wakeAt = failedAt[Len(failedAt)] + sleeps[Len(sleeps)]

\* the third attempt is under way after suspensions of 1 and 2 units
C2_Witness ==
    /\ rpc = "inflight"
    /\ attempt = 2
    /\ sleeps = <<1, 2>>
    /\ startedAt[3] = failedAt[2] + 2

\* C3: when every attempt fails, the error raised wraps the error of the last
\* attempt.
C3_WrapsLastError ==
    rpc = "done" /\ routcome.kind = "raise" =>
        routcome.error.msg = <<"All retry attempts failed. Last error: ", script[3].err>>

\* three attempts failed with three different errors
C3_Witness ==
    /\ rpc = "done"
    /\ routcome.kind = "raise"
    /\ ~script[1].ok /\ ~script[2].ok /\ ~script[3].ok
    /\ script[1].err # script[2].err
    /\ script[2].err # script[3].err
    /\ script[1].err # script[3].err

\* C4: a provider operation gives up on a failing backend only after the
\* attempt budget of 3 round trips is used; a backend that fails once and
\* then succeeds is asked again and the operation succeeds.
C4_RoundTripRetried ==
    pc = "done" /\ response.kind = "error" => roundTrips = 3

\* C5: when transcribe_audio has returned, no temporary file it created is
\* left on the host.
C5_NoTempFileLeft ==
    pc = "done" /\ op = "transcribe_audio" =>
        \A f \in tempFiles : f.name \notin created

\* names of the model's audio inputs whose extension is not a supported format
UnsupportedNames == { <<"a",".","t","x","t">>, <<"n","o","t","e","s">>, <<"a",".">> }

\* zero-length, oversized or unsupported-extension audio
InvalidAudio(a) ==
    \/ a.size = 0
    \/ a.size > 26214400
    \/ a.hasName /\ a.name \in UnsupportedNames

\* C6: a transcription operation given zero-length, oversized or
\* unsupported-extension audio creates no temporary file, issues no backend
\* request, and returns success=false with a message.
C6_ValidationFirst ==
    op \in WhisperOps /\ InvalidAudio(audio) =>
        /\ created = {}
        /\ temp_file = 0
        /\ roundTrips = 0
        /\ pc = "done"
        /\ result.success = FALSE
        /\ result.error # PyNone
        /\ result.error.s # <<>>

\* an oversized upload was turned down
C6_Witness ==
    /\ pc = "done"
    /\ op = "detect_language"
    /\ audio.size = 26214401
    /\ result.success = FALSE

\* C7: a returned AIAnalysisResult with success=false has empty data and an
\* error; an error is present exactly when success=false.
C7_ResultShape ==
    pc = "done" =>
        /\ ~result.success => result.data = EmptyDict /\ result.error # PyNone
        /\ (result.error # PyNone) <=> ~result.success

\* a categorization whose answer did not parse
C7_Witness ==
    /\ pc = "done"
    /\ op = "categorize_mistake"
    /\ response.kind = "text"
    /\ ~result.success
    /\ result.data = EmptyDict

\* a confidence in [0,1]
InUnit(c) == c.t = "num" /\ 0 <= c.n /\ c.n <= 100 * c.d

\* C8: the confidence of a returned AIAnalysisResult, when present, lies in
\* [0,1], whatever the backend put in confidence_score / confidence.
C8_ConfidenceInUnit ==
    pc = "done" /\ result.confidence # PyNone => InUnit(result.confidence)

\* the response texts of the model that are JSON, and those that are a JSON object
JsonTexts == {TxtScored, TxtUnscored, TxtEmptyObj, TxtOver, TxtUnder, TxtWord,
              TxtCategory, TxtList, TxtNull, TxtNumber, TxtString}
JsonObjectTexts == JsonTexts \ {TxtList, TxtNull, TxtNumber, TxtString}

\* the result analyze_mistakes owes for a response text that parsed to v
AnalysisOf(v) ==
    /\ result.success
    /\ result.data = v
    /\ result.confidence =
          (IF v.t = "dict" /\ "confidence_score" \in DOMAIN v.items
             THEN v.items["confidence_score"] ELSE Num(80))

\* the soft-success result for raw text under the fallback key
FallbackOf(key, raw) ==
    /\ result.success
    /\ result.data = Dict((key :> Str(raw)))
    /\ result.confidence = Num(70)

C10_CategorizeHardFailure ==
    pc = "done" /\ op = "categorize_mistake" =>
        /\ response.kind = "text" /\ response.text \notin JsonTexts =>
              /\ ~result.success
              /\ result.error = Str(<<"Failed to parse categorization response">>)
              /\ result.data = EmptyDict
        /\ result.success => response.kind = "text" /\ response.text \in JsonTexts

\* prose came back to a categorization
C10_Witness ==
    /\ pc = "done"
    /\ op = "categorize_mistake"
    /\ response.kind = "text"
    /\ response.text = TxtProse
    /\ ~result.success

\* the result generate_insights owes for raw text that is not JSON
InsightsFallback(raw) ==
    /\ result.success
    /\ result.data = Dict(("insights" :> Str(raw)))
    /\ result.confidence = Num(70)

BackendFailure(resp) ==
    \/ resp.kind \in {"error", "notext", "malformed"}
    \/ /\ resp.kind = "transcript"
       /\ \/ ~({"text", "language"} \subseteq resp.attrs)
          \/ resp.text = PyNone

\* C12: an operation whose round trip ended in a backend failure returns an
\* AIAnalysisResult with success=false and an error message.
C12_BackendFailureIsFailure ==
    pc = "done" /\ roundTrips = 1 /\ BackendFailure(response) =>
        /\ ~result.success
        /\ result.error.t = "str"
        /\ result.error.s # <<>>

\* the segment and text data of a transcript are absent or malformed: a
\* segment carries an avg_logprob that is not a number, or no segment carries
\* one and there is no text to measure
AbsentOrMalformed(tr) ==
    LET segs == IF "segments" \in tr.attrs THEN tr.segments ELSE <<>> IN
    \/ \E i \in 1..Len(segs) : segs[i].has /\ segs[i].lp.t # "num"
    \/ /\ \A i \in 1..Len(segs) : ~segs[i].has
       /\ "text" \notin tr.attrs \/ tr.text = PyNone

\* C13: _calculate_confidence returns a number in [0,1] for every transcript,
\* and 0.75 when the segment and text data are absent or malformed.
C13_EstimateAlwaysInUnit ==
    fn = "_calculate_confidence" =>
        /\ InUnit(out)
        /\ AbsentOrMalformed(arg) => out = Num(75)

\* one segment far below and one far above the range, averaged after clamping
C13_Witness ==
    /\ fn = "_calculate_confidence"
    /\ arg.segments = <<Seg(-100000), Seg(100000)>>
    /\ out = Frac(100, 2)

\* C14: a constructor given an absent or empty key raises the configuration
\* error with no client created and no instance; validate_api_key returns a
\* non-empty key as it is.
C14_CredentialRequired ==
    /\ fn \in {"GeminiService", "WhisperService"} /\ arg \in {PyNone, Str(<<>>)} =>
          /\ out.raised
          /\ out.exc = [type |-> "AIServiceError",
                        msg |-> <<"API key is required but not provided">>]
          /\ out.clients = <<>>
          /\ out.instance = NoInstance
    /\ fn = "validate_api_key" /\ arg \notin {PyNone, Str(<<>>)} =>
          out = Returns(arg)

\* WhisperService() with OPENAI_API_KEY set to the empty string
C14_Witness ==
    /\ fn = "WhisperService"
    /\ arg = Str(<<>>)
    /\ out.raised
    /\ out.clients = <<>>

\* f occurs in the message m, character by character
Occurs(f, m) ==
    \E i \in 1..(Len(m) - Len(f) + 1) : SubSeq(m, i, i + Len(f) - 1) = f

\* the audio validate_audio_file is to accept: 0 < size <= 25 MB, and no name
\* or a name with a supported extension
Acceptable(a) ==
    /\ 0 < a.size
    /\ a.size <= 25 * 1024 * 1024
    /\ ~a.hasName \/ a.name = <<>> \/ a.name \notin UnsupportedNames

\* C15: of a stream that can be measured, validate_audio_file accepts exactly
\* the acceptable audio; everything else raises the validation error, and the
\* error for an unsupported extension names every supported format.
C15_ValidateAudioExact ==
    fn = "validate_audio_file" =>
        /\ arg.fault # "seek" => (~out.raised <=> Acceptable(arg))
        /\ out.raised => out.exc.type = "AIServiceError"
        /\ /\ arg.fault # "seek"
           /\ 0 < arg.size
           /\ arg.size <= 25 * 1024 * 1024
           /\ ~Acceptable(arg)
           => \A f \in supported_formats : Occurs(f, out.exc.msg)

\* audio of exactly the largest size under an upper-case name is accepted
C15_Witness ==
    /\ fn = "validate_audio_file"
    /\ arg.size = 25 * 1024 * 1024
    /\ arg.name = <<"a",".","W","A","V">>
    /\ ~out.raised

\* C16: a successful detect_language result has confidence 0.8 whatever
\* _calculate_confidence gave for confidence_score.
C16_DetectConfidenceFixed ==
    pc = "done" /\ op = "detect_language" /\ result.success =>
        result.confidence = Num(80)

\* the inner score of a successful detection is 0.5
C16_Witness ==
    /\ pc = "done"
    /\ op = "detect_language"
    /\ result.success
    /\ result.data.items["confidence_score"] = Num(50)
    /\ result.confidence = Num(80)

\* C17: the text_sample of a detect_language result has at most 100
\* characters, the ellipsis included, and is the text itself when that has at
\* most 100 characters.
C17_TextSampleAtMost100 ==
    pc = "done" /\ op = "detect_language" /\ result.success =>
        /\ TextLen(result.data.items["text_sample"]) <= 100
        /\ TextLen(response.text) <= 100 =>
              result.data.items["text_sample"] = response.text

\* C18: no round trip is waited for longer than the budget of 30 time units.
C18_BoundedWait ==
    pc = "awaiting" => waited <= timeout

\* C19: a cancelled operation has ended with no file of its own left on the
\* host, and a cancelled retry_on_failure has ended with the CancelledError,
\* invoking the operation and sleeping no more.
C19_CancelAborts ==
    /\ [](cancelled =>
            /\ pc = "cancelled"
            /\ result = NoResult
            /\ \A f \in tempFiles : f.name \notin created)
    /\ [](rcancelled =>
            /\ rpc = "cancelled"
            /\ routcome.kind = "raise"
            /\ routcome.error.type = "CancelledError")
    /\ [][rcancelled => calls' <= calls /\ Len(sleeps') <= Len(sleeps)]_vars

\* a transcription was cancelled at its round trip and its file is gone
C19_Witness ==
    /\ cancelled
    /\ op = "transcribe_audio"
    /\ created # {}
    /\ \A f \in tempFiles : f.name \notin created

\* C20: validate_input raises the error naming the first entry of
\* required_fields that input_data lacks, having tested no entry after it;
\* with nothing lacking, or no required_fields, it returns; input_data is
\* left as it was.
C20_FirstMissingField ==
    fn = "validate_input" =>
        LET keys == DOMAIN arg.input_data.items
            fields == IF arg.required_fields = PyNone THEN <<>>
                      ELSE arg.required_fields.elems
            absent == { i \in 1..Len(fields) : fields[i] \notin keys }
        IN /\ absent # {} =>
                /\ out.raised
                /\ out.exc.type = "AIServiceError"
                /\ \E i \in absent :
                      /\ \A j \in 1..(i - 1) : fields[j] \in keys
                      /\ out.exc.msg = <<"Required field '", fields[i],
                                         "' missing from input data">>
                      /\ out.examined = i
           /\ absent = {} => ~out.raised
           /\ out.input_data = arg.input_data

\* language and prompt are both lacking and language is the one named
C20_Witness ==
    /\ fn = "validate_input"
    /\ arg.required_fields = List(<<"audio", "language", "prompt">>)
    /\ DOMAIN arg.input_data.items = {"audio"}
    /\ out.raised
    /\ out.exc.msg[2] = "language"
    /\ out.examined = 2

\* clamp(x, 0.0, 1.0), in hundredths
Clamp(x) == IF x < 0 THEN 0 ELSE IF x > 100 THEN 100 ELSE x

RECURSIVE ClampSum(_)
\* the sum of clamp(avgLogProb + 1.0) over the segments that carry one
ClampSum(segs) ==
    IF segs = <<>> THEN 0
    ELSE (IF Head(segs).has THEN Clamp(Head(segs).lp.n + 100) ELSE 0) + ClampSum(Tail(segs))

\* the reference estimate of a transcript is c
ReferenceConfidence(tr, c) ==
    LET segs == IF "segments" \in tr.attrs THEN tr.segments ELSE <<>>
        carrying == { i \in 1..Len(segs) : segs[i].has }
        L == tr.text.core
    IN IF AbsentOrMalformed(tr) THEN c = Num(75)
       ELSE IF carrying # {}
         THEN c.t = "num" /\ c.d > 0 /\ c.n * Cardinality(carrying) = ClampSum(segs) * c.d
       ELSE IF L > 50 THEN c = Num(85)
       ELSE IF L > 10 THEN c = Num(70)
       ELSE c = Num(50)

\* C21: _calculate_confidence equals the reference: the mean of the clamped
\* avg_logprob + 1.0 over the segments that carry one; with none, 0.85 / 0.70 /
\* 0.50 by the length of the trimmed text (boundaries 50 and 10 on the lower
\* side); 0.75 on a computation error.
C21_EstimateIsReference ==
    fn = "_calculate_confidence" => ReferenceConfidence(arg, out)

\* a text of exactly 50 characters and no segments is worth 0.70
C21_Witness ==
    /\ fn = "_calculate_confidence"
    /\ arg.attrs = {"text"}
    /\ arg.text = Text(0, 50, 0)
    /\ out = Num(70)

\* C22: whenever the response text of analyze_mistakes or generate_insights is
\* not a JSON object (unparseable, or a JSON list, string, number or null) the
\* result is success=true with the raw text under the fallback key and
\* confidence 0.7.
C22_EveryMismatchSoftSucceeds ==
    /\ pc = "done"
    /\ op \in {"analyze_mistakes", "generate_insights"}
    /\ response.kind = "text"
    /\ response.text \notin JsonObjectTexts
    => /\ result.success
       /\ result.data = Dict(((IF op = "analyze_mistakes" THEN "analysis" ELSE "insights")
                              :> Str(response.text)))
       /\ result.confidence = Num(70)

\* what a text operation returns when generate_text raised for a backend error
ProviderErrorOf(o, err) ==
    /\ ~result.success
    /\ result.error = Str(<<ErrorPrefix(o), "Gemini text generation failed: ">> \o err)

\* C23 as stated: every invocation of a text operation issues exactly one
\* backend request, and a backend error is raised by generate_text as the
\* provider error without a second round trip.
C23_ExactlyOneRoundTrip ==
    pc \in {"awaiting", "done", "cancelled"} /\ op \in GeminiOps =>
        /\ roundTrips = 1
        /\ pc = "done" /\ response.kind = "error" => ProviderErrorOf(op, response.err)

\* C23 amended: an invocation issues at most one backend request: exactly one
\* once its prompt is built, none when formatting its records raised, which
\* ends the invocation with success=false.
C23_AtMostOneRoundTrip ==
    pc \in {"awaiting", "done", "cancelled"} /\ op \in GeminiOps =>
        /\ roundTrips \in {0, 1}
        /\ roundTrips = 0 =>
              /\ pc = "done"
              /\ op # "categorize_mistake"
              /\ records = "objects"
              /\ response = NoResponse
              /\ ~result.success
        /\ roundTrips = 1 => op = "categorize_mistake" \/ records = "dicts"
        /\ pc = "done" /\ response.kind = "error" => ProviderErrorOf(op, response.err)

\* the backend failed the only round trip of a call and would have answered
\* the next one
C23_Witness ==
    /\ pc = "done"
    /\ op = "categorize_mistake"
    /\ response.kind = "error"
    /\ backendFails = 1
    /\ roundTrips = 1
    /\ ~result.success

\* task j can take its next step
CanStep(j) ==
    CASE cpc[j] = "inflight" -> ENABLED (CallSucceed(j) \/ CallFail(j))
      [] cpc[j] = "done"     -> ENABLED CallReturn(j)
      [] cpc[j] = "idle"     -> cno < MaxPairCalls => ENABLED CallStart(j)
      [] OTHER               -> TRUE

\* C24: within a call, an invocation after the first begins only out of the
\* backoff sleep that followed the failure of the one before, once the
\* 2 ** attempt time units have passed; and while one task is in its round
\* trip or in backoff the other task can take its steps.
C24_SequentialAttempts ==
    /\ [][\A i \in Tasks :
            ccalls[i] >= 1 /\ ccalls'[i] = ccalls[i] + 1 =>
                /\ cpc[i] = "sleeping"
                /\ clast[i] = ErrAt(ccalls[i])
                /\ cslept[i] = Pow2(ccalls[i] - 1)]_vars
    /\ [](\A i \in Tasks :
            cpc[i] \in {"inflight", "sleeping"} => CanStep(Other(i)))

\* task 2 began and completed a call while task 1 was in its second backoff
C24_Witness ==
    /\ cpc[1] = "sleeping"
    /\ ccalls[1] = 2
    /\ cleft[1] > 0
    /\ cpc[2] = "done"
    /\ cduring[2]
    /\ cout[2].kind = "return"

\* C26: an operation whose first invocation under retry_on_failure raises a
\* validation or configuration error is invoked once and the error surfaces
\* at once: no backoff sleep, no second invocation.
C26_FatalErrorsNotRetried ==
    /\ rpc # "idle"
    /\ failedAt # <<>>
    /\ script[1].err \in ValidationErrors \cup ConfigurationErrors
    => /\ calls = 1
       /\ sleeps = <<>>
       /\ rpc = "done"
       /\ routcome.kind = "raise"

\* invocations a call makes of an operation with the given script
NeededCalls(sc) ==
    IF \E k \in 1..rate_limit_retry : sc[k]
      THEN CHOOSE k \in 1..rate_limit_retry : sc[k] /\ \A m \in 1..(k - 1) : ~sc[m]
    ELSE rate_limit_retry

\* C27: the attempts and backoff durations of each of two interleaved calls
\* are those its own operation's failures call for, whatever the other call
\* does, and every call starts at attempt 0.
C27_NoSharedRetryState ==
    /\ [](\A i \in Tasks :
            cpc[i] # "idle" =>
                /\ cattempt[i] = ccalls[i] - 1
                /\ ccalls[i] <= NeededCalls(cscript[i])
                /\ \A k \in 1..(ccalls[i] - 1) : ~cscript[i][k]
                /\ csleeps[i] = [k \in 1..Len(csleeps[i]) |-> Pow2(k - 1)]
                /\ Len(csleeps[i]) \in {ccalls[i] - 1, ccalls[i]}
                /\ cpc[i] = "done" =>
                      /\ ccalls[i] = NeededCalls(cscript[i])
                      /\ Len(csleeps[i]) = ccalls[i] - 1)
    /\ [][\A i \in Tasks :
            cpc[i] = "idle" /\ cpc'[i] # "idle" =>
                cattempt'[i] = 0 /\ ccalls'[i] = 1 /\ csleeps'[i] = <<>> /\ clast'[i] = None]_vars

\* task 1 has used up its three attempts while task 2, begun meanwhile,
\* succeeded at its first
C27_Witness ==
    /\ cpc[1] = "done"
    /\ ccalls[1] = 3
    /\ cout[1].kind = "raise"
    /\ cpc[2] = "done"
    /\ cduring[2]
    /\ ccalls[2] = 1
    /\ cout[2].kind = "return"

\* C25: of two transcription calls running together each has a file of its
\* own, holding and sending what that call wrote, and a step that removes a
\* file removes the file of the call whose round trip it ends, never that of
\* a call still in its round trip.
C25_OwnTemporaryFile ==
    /\ [](\A i \in Tasks :
            wpc[i] = "awaiting" =>
                /\ FileAt(whost, wfile[i]) = [content |-> waudio[i], owner |-> i]
                /\ wsent[i] = [content |-> waudio[i], owner |-> i]
                /\ wpc[Other(i)] = "awaiting" => wfile[Other(i)] # wfile[i])
    /\ [][/\ \A f \in whost \ whost' :
                \E i \in Tasks : /\ wpc[i] = "awaiting"
                                 /\ wpc'[i] = "done"
                                 /\ f.name = wfile[i]
                                 /\ f.owner = i
          /\ \A j \in Tasks :
                wpc[j] = "awaiting" /\ wpc'[j] = "awaiting" =>
                    FileAt(whost', wfile[j]) = [content |-> waudio[j], owner |-> j]]_vars

\* both tasks are in their round trips over the same payload, after a third
\* call has come and gone
C25_Witness ==
    /\ wpc[1] = "awaiting"
    /\ wpc[2] = "awaiting"
    /\ waudio[1] = waudio[2]
    /\ wfile[1] # wfile[2]
    /\ wno = 3
    /\ Cardinality(whost) = 2

C29_OperationInvokedOnce ==
    /\ [](rpc # "idle" => /\ calls = 1
                          /\ attempt = 0
                          /\ sleeps = <<>>
                          /\ pcallNo <= rcallNo)
    /\ [](rpc = "done" => routcome.kind = "return")
    /\ [][rpc = "inflight" /\ rpc' = "done" =>
            /\ pc = "done"
            /\ routcome'.val = result]_vars

\* a failed transcription came back as the return value of the first attempt
C29_Witness ==
    /\ rpc = "done"
    /\ calls = 1
    /\ routcome.kind = "return"
    /\ ~routcome.val.success
    /\ routcome.val.error # PyNone

\* C30: validate_audio_file measures the whole payload and leaves the stream
\* at position 0 wherever the caller had it: audio rejected for its size is
\* returned at position 0, and for accepted audio the temporary file, and the
\* file sent in the request, hold the whole payload from its first byte.
C30_WholePayload ==
    op \in WhisperOps /\ given.fault # "seek" =>
        /\ size_error(given.size) # <<>> =>
              /\ pc = "done"
              /\ roundTrips = 0
              /\ audio.pos = 0
        /\ pc = "awaiting" =>
              /\ size_error(given.size) = <<>>
              /\ \E t \in tempFiles :
                    /\ t.name = temp_file
                    /\ t.first = 0
                    /\ t.bytes = given.size
              /\ request.file = [first |-> 0, bytes |-> given.size]

\* the caller had read one byte of a payload of the largest size
C30_Witness ==
    /\ pc = "awaiting"
    /\ op = "transcribe_audio"
    /\ given.pos = 1
    /\ given.size = max_file_size
    /\ request.file = [first |-> 0, bytes |-> max_file_size]

====
